---- MODULE Spec2Model ----
(***************************************************************************)
(* Newsletter builders: DOCX -> HTML -> section extraction -> MJML          *)
(* templates -> compiled HTML.                                              *)
(*                                                                          *)
(* These parts of the builders are modelled, each with its own              *)
(* specification over its own variables (the other variables stay idle):    *)
(*   SpecTokens   the layout substitution chain of main()                   *)
(*   SpecExtract  the sibling-walk section extractors and their renderers   *)
(*   SpecSanitize the inline sanitizer                                      *)
(*   SpecBody     renderBodyHtml, the body of a topic                       *)
(*   SpecEdition  the lookups after a marker and the in-this-edition table  *)
(*   SpecRun      one run of main(), with its failures                      *)
(*   SpecConcurrent  two builds run at the same time                        *)
(*                                                                          *)
(* Markup strings are sequences of lexemes: "{{%" and "%}}" are the token   *)
(* delimiters, " " is whitespace, a token NAME is one lexeme, and the       *)
(* characters "$", "&", "`", "'", "1" are lexemes of their own because      *)
(* String.prototype.replace gives them a meaning in a replacement string.   *)
(***************************************************************************)
EXTENDS Integers, Sequences, FiniteSets, TLC

VARIABLES
    \* ---- layout substitution chain (main) ----
    builder,    \* which builder's main() runs
    ip,         \* position in that builder's chain of test/replace calls
    layout,     \* the layout template as read from layout.mjml
    out,        \* finalMjml so far
    origin,     \* per lexeme of out: "tpl" (from the layout) or "frag" (inserted)
    prev,       \* the string the last replace call was applied to
    prevOrigin, \* origin of prev
    lastTok,    \* token name of the last replace call ("" before the first)
    frag,       \* replacement string handed to the last replace call
    inserted,   \* texts the last replace call put at the matches, in order
    lastIndex,  \* lastIndex of each global TOKEN_* regex object
    warned,     \* tokens for which the "not found" warning was logged
    \* ---- one section: extract -> render -> inject ----
    extractor,  \* which extractor function is applied
    hasMarker,  \* the document holds a heading matching the section's marker
    siblings,   \* the elements that follow the marker, in document order
    phase,      \* "start", "extracted", "rendered", "done"
    topics,     \* what the extractor returned
    sectionMjml,\* what the renderer returned
    layoutMjml, \* the layout template the section is injected into
    finalMjml,  \* the layout after the section's token was replaced
    \* ---- the inline sanitizer ----
    sanitizer,  \* which sanitizer function runs
    html,       \* the fragment handed to it
    dom,        \* the children of <root> in the parsed document
    sanitized,  \* the string it returns
    step,       \* "start", "loaded", "anchors", "unwrapped", "done"
    \* ---- renderBodyHtml ----
    bodyNodes,  \* the nodes of a topic body handed to renderBodyHtml
    wrapP,      \* its wrapP option
    bodyIdx,    \* position of the for loop (0: not called)
    parts,      \* parts pushed so far, each with the position of its node
    bodyHtml,   \* the string returned
    bodyDone,   \* renderBodyHtml returned
    \* ---- the single lookups after a marker; the in-this-edition table ----
    edLookup,   \* which lookup function runs
    edDoc,      \* the elements that follow the marker, in document order
    edTpl,      \* in-this-edition-table.mjml
    edItems,    \* what the lookup returned
    edFrom,     \* positions in edDoc of the nodes its content came from
    edMjml,     \* what renderInThisEditionFromTemplate returned
    edPhase,    \* "start", "extracted", "rendered"
    \* ---- one run of main() ----
    main,       \* which builder's main() runs
    argv,       \* process.argv[2], the path of the DOCX
    present,    \* which of the files main() checks exist
    rpc,        \* position in the builder's sequence of steps
    trace,      \* the steps started so far, in order
    failed,     \* the step that threw (NoStep: none)
    pending,    \* an exception is on its way to main().catch
    printed,    \* console.error printed the error
    exitCode,   \* -1 while the process runs
    outPaths,   \* outDir, outMjmlPath, outHtmlPath
    madeDirs,   \* directories ensureDir made sure of
    written,    \* output files written by this run
    mjmlErrors, \* mjml2html returns a non-empty errors list
    mjmlWarned, \* the "MJML validation warnings" were logged
    \* ---- two builds run at the same time ----
    cMain,      \* the builder both builds run
    cIn,        \* the input path of each build
    cPc,        \* where each build stands: "start", "derived", "mjml", "done"
    cOut,       \* the output location each build derived
    cFs,        \* output files on disk, each with the build that wrote it last
    cLost,      \* builds that had a file overwritten by the other build
    \* ---- the stories of the Spotlight section are rendered ----
    spRenderer, \* which spotlight renderer runs
    spStories,  \* the stories the extractor returned (their titles)
    spIdx,      \* idx of the story the loop is at (1-based)
    spBlocks,   \* the pieces emitted so far
    spMjml,     \* what the renderer returned
    spDone,     \* the renderer has returned
    \* ---- the London long story short is split into two cards ----
    lssCategories, \* the categories the walk collected: title and items
    lssData,       \* what extractLongStoryShortLondon returned
    lssCards,      \* the cards renderLongStoryShortLondon returned
    lssPhase,      \* "start", "extracted", "rendered"
    \* ---- the nodes of a geopolitical story are parsed ----
    gsParser,      \* parseSpotlightNodesGS or parseFoundationNodesGS
    gsSeq,         \* the nodes of the story
    gsImgIndex,    \* imgIndex (1-based; 0: no image)
    gsCaptionIndex, \* captionIndex (1-based; 0: no caption)
    gsParts,       \* parts: image, captionHtml, and the parts of bodyHtml
    gsPhase,       \* "start", "image", "caption", "body"
    \* ---- the Dubai career section ----
    crHasH2,    \* the document has a "Career" h2
    crSiblings, \* the elements that follow it
    crData,     \* what extractCareerDubai returned
    crMjml,     \* what renderCareerDubai returned
    crPhase,    \* "start", "extracted", "rendered"
    \* ---- the London "What's on" section ----
    woHasMarker, \* the document has a "What's on" heading
    woSiblings,  \* the elements that follow it
    woItems,     \* what extractWhatsOnLondon returned
    woMjml,      \* what renderWhatsOnLondon returned
    woPhase      \* "start", "extracted", "rendered"

tokVars == <<builder, ip, layout, out, origin, prev, prevOrigin, lastTok, frag,
             inserted, lastIndex, warned>>

extVars == <<extractor, hasMarker, siblings, phase, topics, sectionMjml,
             layoutMjml, finalMjml>>

sanVars == <<sanitizer, html, dom, sanitized, step>>

bodyVars == <<bodyNodes, wrapP, bodyIdx, parts, bodyHtml, bodyDone>>

edVars == <<edLookup, edDoc, edTpl, edItems, edFrom, edMjml, edPhase>>

runVars == <<main, argv, present, rpc, trace, failed, pending, printed, exitCode, outPaths,
             madeDirs, written, mjmlErrors, mjmlWarned>>

conVars == <<cMain, cIn, cPc, cOut, cFs, cLost>>

spotVars == <<spRenderer, spStories, spIdx, spBlocks, spMjml, spDone>>

lssVars == <<lssCategories, lssData, lssCards, lssPhase>>

gsVars == <<gsParser, gsSeq, gsImgIndex, gsCaptionIndex, gsParts, gsPhase>>

careerVars == <<crHasH2, crSiblings, crData, crMjml, crPhase>>

woVars == <<woHasMarker, woSiblings, woItems, woMjml, woPhase>>

vars == <<tokVars, extVars, sanVars, bodyVars, edVars, runVars, conVars, spotVars, lssVars, gsVars, careerVars, woVars>>

\* What the actions of each part leave unchanged.
restTokens == <<extVars, sanVars, bodyVars, edVars, runVars, conVars, spotVars, lssVars, gsVars, careerVars, woVars>>
restExtract == <<tokVars, sanVars, bodyVars, edVars, runVars, conVars, spotVars, lssVars, gsVars, careerVars, woVars>>
restSanitize == <<tokVars, extVars, bodyVars, edVars, runVars, conVars, spotVars, lssVars, gsVars, careerVars, woVars>>
restBody == <<tokVars, extVars, sanVars, edVars, runVars, conVars, spotVars, lssVars, gsVars, careerVars, woVars>>
restEdition == <<tokVars, extVars, sanVars, bodyVars, runVars, conVars, spotVars, lssVars, gsVars, careerVars, woVars>>
restRun == <<tokVars, extVars, sanVars, bodyVars, edVars, conVars, spotVars, lssVars, gsVars, careerVars, woVars>>
restConcurrent == <<tokVars, extVars, sanVars, bodyVars, edVars, runVars, spotVars, lssVars, gsVars, careerVars, woVars>>
restSpotlight == <<tokVars, extVars, sanVars, bodyVars, edVars, runVars, conVars, lssVars, gsVars, careerVars, woVars>>
restLss == <<tokVars, extVars, sanVars, bodyVars, edVars, runVars, conVars, spotVars, gsVars, careerVars, woVars>>
restParse == <<tokVars, extVars, sanVars, bodyVars, edVars, runVars, conVars, spotVars, lssVars, careerVars, woVars>>
restCareer == <<tokVars, extVars, sanVars, bodyVars, edVars, runVars, conVars, spotVars, lssVars, gsVars, woVars>>
restWhatsOn == <<tokVars, extVars, sanVars, bodyVars, edVars, runVars, conVars, spotVars, lssVars, gsVars, careerVars>>

(***************************************************************************)
(* Bounds                                                                   *)
(***************************************************************************)
MaxParts == 2      \* parts a layout template is concatenated from
MaxSiblings == 3   \* elements that follow a section marker
MaxTop == 2        \* top-level nodes of a fragment handed to the sanitizer
MaxCategories == 3 \* categories of the London long story short
MaxNodes == 3      \* nodes of a geopolitical story
MaxCareer == 6     \* elements that follow the Career h2
MaxLines == 7      \* elements that follow the "What's on" heading
MaxStories == 3    \* stories of the Spotlight section

(***************************************************************************)
(* Each specification leaves the variables of the other parts idle          *)
(***************************************************************************)
IdleExtract ==
    /\ extractor = "" /\ hasMarker = FALSE /\ siblings = <<>> /\ phase = "idle"
    /\ topics = <<>> /\ sectionMjml = <<>> /\ layoutMjml = <<>> /\ finalMjml = <<>>

IdleSanitize ==
    /\ sanitizer = "" /\ html = <<>> /\ dom = <<>> /\ sanitized = <<>> /\ step = "idle"

IdleBody ==
    /\ bodyNodes = <<>> /\ wrapP = FALSE /\ bodyIdx = 0 /\ parts = <<>>
    /\ bodyHtml = <<>> /\ bodyDone = FALSE

IdleEdition ==
    /\ edLookup = "" /\ edDoc = <<>> /\ edTpl = <<>> /\ edItems = <<>>
    /\ edFrom = {} /\ edMjml = <<>> /\ edPhase = "idle"

IdleRun ==
    /\ main = "" /\ argv = <<>> /\ present = <<>> /\ rpc = 0 /\ trace = <<>>
    /\ failed = <<>> /\ pending = FALSE /\ printed = FALSE /\ exitCode = 0
    /\ outPaths = <<>> /\ madeDirs = {} /\ written = {}
    /\ mjmlErrors = FALSE /\ mjmlWarned = FALSE

IdleConcurrent ==
    /\ cMain = "" /\ cIn = <<>> /\ cPc = <<>> /\ cOut = <<>> /\ cFs = {} /\ cLost = {}

IdleSpotlight ==
    /\ spRenderer = "" /\ spStories = <<>> /\ spIdx = 0 /\ spBlocks = <<>>
    /\ spMjml = <<>> /\ spDone = FALSE

IdleLss ==
    /\ lssCategories = <<>> /\ lssData = <<>> /\ lssCards = <<>> /\ lssPhase = "idle"

IdleParse ==
    /\ gsParser = "" /\ gsSeq = <<>> /\ gsImgIndex = 0 /\ gsCaptionIndex = 0
    /\ gsParts = <<>> /\ gsPhase = "idle"

IdleCareer ==
    /\ crHasH2 = FALSE /\ crSiblings = <<>> /\ crData = <<>> /\ crMjml = <<>>
    /\ crPhase = "idle"

IdleWhatsOn ==
    /\ woHasMarker = FALSE /\ woSiblings = <<>> /\ woItems = <<>> /\ woMjml = <<>>
    /\ woPhase = "idle"

IdleTokens ==
    /\ builder = "" /\ ip = 0 /\ layout = <<>> /\ out = <<>> /\ origin = <<>>
    /\ prev = <<>> /\ prevOrigin = <<>> /\ lastTok = "" /\ frag = <<>>
    /\ inserted = <<>> /\ lastIndex = <<>> /\ warned = {}

(***************************************************************************)
(* Lexemes                                                                  *)
(***************************************************************************)
OPEN == "{{%"
CLOSE == "%}}"
WS == " "

RECURSIVE Concat(_)
Concat(ss) == IF ss = <<>> THEN <<>> ELSE Head(ss) \o Concat(Tail(ss))

SeqsUpTo(S, n) == UNION {[1..k -> S] : k \in 0..n}

Const(n, v) == [i \in 1..n |-> v]

(***************************************************************************)
(* Utils                                                                    *)
(***************************************************************************)
\* escapeHtml: & < > " ' become entities; every other lexeme is kept.
EscapeLexeme(c) ==
    CASE c = "&" -> <<"&", "amp;">>
      [] c = "<" -> <<"&", "lt;">>
      [] c = ">" -> <<"&", "gt;">>
      [] c = "\"" -> <<"&", "quot;">>
      [] c = "'" -> <<"&", "#39;">>
      [] OTHER -> <<c>>

escapeHtml(str) == Concat([i \in 1..Len(str) |-> EscapeLexeme(str[i])])

(***************************************************************************)
(* TOKEN_* regexes:  \{\{\%\s*NAME\s*\%\}\}  with the g flag                *)
(***************************************************************************)
RECURSIVE SkipWs(_, _)
SkipWs(s, i) == IF i <= Len(s) /\ s[i] = WS THEN SkipWs(s, i + 1) ELSE i

\* Index just past a match of the regex for `name` that begins at p; 0 if none.
MatchEnd(s, p, name) ==
    IF p <= Len(s) /\ s[p] = OPEN
    THEN LET i == SkipWs(s, p + 1) IN
         IF i <= Len(s) /\ s[i] = name
         THEN LET j == SkipWs(s, i + 1) IN
              IF j <= Len(s) /\ s[j] = CLOSE THEN j + 1 ELSE 0
         ELSE 0
    ELSE 0

\* First match at or after position p: <<start, end>>, or <<0, 0>>.
RECURSIVE FirstMatch(_, _, _)
FirstMatch(s, p, name) ==
    IF p > Len(s) THEN <<0, 0>>
    ELSE IF MatchEnd(s, p, name) # 0 THEN <<p, MatchEnd(s, p, name)>>
    ELSE FirstMatch(s, p + 1, name)

\* The matches a global replace visits: left to right, not overlapping.
RECURSIVE MatchesFrom(_, _, _)
MatchesFrom(s, p, name) ==
    LET m == FirstMatch(s, p, name) IN
    IF m[1] = 0 THEN <<>> ELSE <<m>> \o MatchesFrom(s, m[2], name)

Matches(s, name) == MatchesFrom(s, 1, name)

\* RegExp.prototype.test on a global regex: searches from lastIndex (lexeme
\* positions are 1-based here, lastIndex 0-based as in JS), and leaves
\* lastIndex after the match, or 0 when there is none.
RegexTest(s, name, li) ==
    LET m == IF li > Len(s) THEN <<0, 0>> ELSE FirstMatch(s, li + 1, name) IN
    [found |-> m[1] # 0, lastIndex |-> IF m[1] # 0 THEN m[2] - 1 ELSE 0]

\* GetSubstitution of String.prototype.replace for a regex without capture
\* groups: $$ -> $, $& -> the match, $` -> text before the match,
\* $' -> text after it; $1 has no group to refer to and stays as written.
RECURSIVE GetSubstitution(_, _, _, _, _)
GetSubstitution(repl, k, s, p, e) ==
    IF k > Len(repl) THEN <<>>
    ELSE IF repl[k] = "$" /\ k < Len(repl) /\ repl[k + 1] \in {"$", "&", "`", "'"}
    THEN (CASE repl[k + 1] = "$" -> <<"$">>
            [] repl[k + 1] = "&" -> SubSeq(s, p, e - 1)
            [] repl[k + 1] = "`" -> SubSeq(s, 1, p - 1)
            [] repl[k + 1] = "'" -> SubSeq(s, e, Len(s)))
         \o GetSubstitution(repl, k + 2, s, p, e)
    ELSE <<repl[k]>> \o GetSubstitution(repl, k + 1, s, p, e)

\* The texts put at the matches of `name` in s, in order.
Insertions(s, name, repl) ==
    LET ms == Matches(s, name) IN
    [i \in 1..Len(ms) |-> GetSubstitution(repl, 1, s, ms[i][1], ms[i][2])]

\* Splice: s with the i-th range of ms replaced by ins[i]; keep(a, b) maps the
\* kept stretch a..b-1 of s to what is kept of it.
RECURSIVE Splice(_, _, _, _, _)
Splice(s, from, ms, ins, i) ==
    IF i > Len(ms) THEN SubSeq(s, from, Len(s))
    ELSE SubSeq(s, from, ms[i][1] - 1) \o ins[i] \o Splice(s, ms[i][2], ms, ins, i + 1)

\* str.replace(TOKEN, repl) with a global regex.
replace(s, name, repl) ==
    Splice(s, 1, Matches(s, name), Insertions(s, name, repl), 1)

\* Origin marks of the result of replace: kept lexemes keep their mark,
\* every inserted lexeme is marked "frag".
replaceOrigin(s, o, name, repl) ==
    LET ins == Insertions(s, name, repl) IN
    Splice(o, 1, Matches(s, name), [i \in 1..Len(ins) |-> Const(Len(ins[i]), "frag")], 1)

(***************************************************************************)
(* main(): the chain of token checks and substitutions of each builder      *)
(***************************************************************************)
Builders == {"presidential", "geopolitical", "dubai", "london", "edition", "spotlight"}

T(op, tok, esc) == [op |-> op, tok |-> tok, esc |-> esc]

\* build.js / build-presidential-summary.js: six checks, then one chain of
\* six replaces; image credits and preview text are escaped.
ChainPresidential ==
    << T("test", "IN_THIS_EDITION_TABLE", FALSE),
       T("test", "SPOTLIGHT_SECTIONS", FALSE),
       T("test", "LONG_STORY_SHORT_SECTIONS", FALSE),
       T("test", "FOOTER_BANNER", FALSE),
       T("test", "IMAGE_CREDITS", FALSE),
       T("test", "PREVIEW_TEXT", FALSE),
       T("replace", "IN_THIS_EDITION_TABLE", FALSE),
       T("replace", "SPOTLIGHT_SECTIONS", FALSE),
       T("replace", "LONG_STORY_SHORT_SECTIONS", FALSE),
       T("replace", "FOOTER_BANNER", FALSE),
       T("replace", "IMAGE_CREDITS", TRUE),
       T("replace", "PREVIEW_TEXT", TRUE) >>

\* build-geopolitical-summary.js: hasToken (resets lastIndex) before each replace.
ChainGeopolitical ==
    << T("hasToken", "PREVIEW_TEXT", FALSE), T("replace", "PREVIEW_TEXT", FALSE),
       T("hasToken", "IN_THIS_EDITION_TABLE", FALSE), T("replace", "IN_THIS_EDITION_TABLE", FALSE),
       T("hasToken", "SPOTLIGHT_SECTION", FALSE), T("replace", "SPOTLIGHT_SECTION", FALSE),
       T("hasToken", "WORLDWIDE_SECTION", FALSE), T("replace", "WORLDWIDE_SECTION", FALSE),
       T("hasToken", "FOUNDATIONS_SECTION", FALSE), T("replace", "FOUNDATIONS_SECTION", FALSE),
       T("hasToken", "ANALYSIS_SECTION", FALSE), T("replace", "ANALYSIS_SECTION", FALSE) >>

\* build-dubai-summary.js: test, then replace, token by token.
ChainDubai ==
    << T("test", "IN_THIS_EDITION_TABLE", FALSE), T("replace", "IN_THIS_EDITION_TABLE", FALSE),
       T("test", "SPOTLIGHT_SECTION", FALSE), T("replace", "SPOTLIGHT_SECTION", FALSE),
       T("test", "WHERE_TO_EAT_SECTION", FALSE), T("replace", "WHERE_TO_EAT_SECTION", FALSE),
       T("test", "CAREER_SECTION", FALSE), T("replace", "CAREER_SECTION", FALSE),
       T("test", "MEANWHILE_SECTION", FALSE), T("replace", "MEANWHILE_SECTION", FALSE),
       T("test", "DID_YOU_KNOW_SECTION", FALSE), T("replace", "DID_YOU_KNOW_SECTION", FALSE) >>

\* build-london-summary.js: as Dubai, then preview text (escaped) and image
\* credits replaced without a check.
ChainLondon ==
    << T("test", "IN_THIS_EDITION_TABLE", FALSE), T("replace", "IN_THIS_EDITION_TABLE", FALSE),
       T("test", "SPOTLIGHT_SECTION", FALSE), T("replace", "SPOTLIGHT_SECTION", FALSE),
       T("test", "WHATS_ON_SECTION", FALSE), T("replace", "WHATS_ON_SECTION", FALSE),
       T("test", "LONG_STORY_SHORT_SECTION", FALSE), T("replace", "LONG_STORY_SHORT_SECTION", FALSE),
       T("test", "DID_YOU_KNOW_SECTION", FALSE), T("replace", "DID_YOU_KNOW_SECTION", FALSE),
       T("replace", "PREVIEW_TEXT", TRUE),
       T("replace", "IMAGE_CREDITS", FALSE) >>

\* the in-this-edition-only build: one local regex, one check, one replace.
ChainEdition ==
    << T("test", "IN_THIS_EDITION_TABLE", FALSE), T("replace", "IN_THIS_EDITION_TABLE", FALSE) >>

\* renderSpotlightSections of build.js, for two topics: for each topic
\* out = sectionTpl, two checks, two replaces, on the same two regexes.
ChainSpotlight ==
    << T("test", "SPOTLIGHT_HEADER", FALSE), T("test", "SPOTLIGHT_TOPIC", FALSE),
       T("replace", "SPOTLIGHT_HEADER", FALSE), T("replace", "SPOTLIGHT_TOPIC", FALSE),
       T("restart", "", FALSE),
       T("test", "SPOTLIGHT_HEADER", FALSE), T("test", "SPOTLIGHT_TOPIC", FALSE),
       T("replace", "SPOTLIGHT_HEADER", FALSE), T("replace", "SPOTLIGHT_TOPIC", FALSE) >>

Chain(b) ==
    CASE b = "presidential" -> ChainPresidential
      [] b = "geopolitical" -> ChainGeopolitical
      [] b = "dubai" -> ChainDubai
      [] b = "london" -> ChainLondon
      [] b = "edition" -> ChainEdition
      [] b = "spotlight" -> ChainSpotlight

TokensOf(b) == {Chain(b)[i].tok : i \in 1..Len(Chain(b))} \ {""}

AllTokens == UNION {TokensOf(b) : b \in Builders}

\* Order in which main() first replaces each token.
ReplaceOrder(b) ==
    LET c == Chain(b) IN
    SelectSeq([i \in 1..Len(c) |-> c[i]], LAMBDA t : t.op = "replace")

FirstTok(b) == ReplaceOrder(b)[1].tok
LastTok(b) == ReplaceOrder(b)[Len(ReplaceOrder(b))].tok

\* A token name no builder replaces (layout.mjml is an external file).
UNSUPPLIED == "SOCIAL_LINKS"

(***************************************************************************)
(* Inputs: layout templates and rendered fragments                          *)
(***************************************************************************)
\* Pieces a layout is made of: text, the builder's first and last token
\* (compact, and the first one also with inner whitespace and in lower
\* case), and a token the builder has no fragment for.
LayoutParts(b) ==
    { <<"x">>,
      <<OPEN, FirstTok(b), CLOSE>>,
      <<OPEN, WS, FirstTok(b), WS, WS, CLOSE>>,
      <<OPEN, "in_this_edition_table", CLOSE>>,
      <<OPEN, LastTok(b), CLOSE>>,
      <<OPEN, UNSUPPLIED, CLOSE>> }

Layouts(b) == {Concat(ps) : ps \in SeqsUpTo(LayoutParts(b), MaxParts)}

\* Rendered fragments: empty, plain markup, the five $-sequences, text that
\* spells a token of this builder, text with an ampersand.
Fragments(b) ==
    { <<>>, <<"x">>,
      <<"$", "&">>, <<"$", "$">>, <<"$", "`">>, <<"$", "'">>, <<"$", "1">>,
      <<"x", "&">>,
      <<OPEN, LastTok(b), CLOSE>> }

(***************************************************************************)
(* Actions of the substitution chain                                        *)
(***************************************************************************)
InitTokens ==
    /\ builder \in Builders
    /\ layout \in Layouts(builder)
    /\ ip = 1
    /\ out = layout
    /\ origin = Const(Len(layout), "tpl")
    /\ prev = layout
    /\ prevOrigin = Const(Len(layout), "tpl")
    /\ lastTok = ""
    /\ frag = <<>>
    /\ inserted = <<>>
    /\ lastIndex = [t \in AllTokens |-> 0]
    /\ warned = {}
    /\ IdleExtract
    /\ IdleSanitize
    /\ IdleBody
    /\ IdleEdition
    /\ IdleRun
    /\ IdleConcurrent
    /\ IdleSpotlight
    /\ IdleLss
    /\ IdleParse
    /\ IdleCareer
    /\ IdleWhatsOn

\* Mutation of lastIndexAfterReplace: replace leaves lastIndex as it found it.
lastIndexKept(li) == li

\* String.prototype.replace with a global regex sets lastIndex to 0 before
\* the first match and leaves it 0 after the last.
lastIndexAfterReplace(li) == 0

AtOp(op) == ip <= Len(Chain(builder)) /\ Chain(builder)[ip].op = op

\* if (!TOKEN.test(layoutMjml)) console.warn(...)
TestToken ==
    /\ AtOp("test")
    /\ LET tok == Chain(builder)[ip].tok
           r == RegexTest(out, tok, lastIndex[tok]) IN
       /\ lastIndex' = [lastIndex EXCEPT ![tok] = r.lastIndex]
       /\ warned' = IF r.found THEN warned ELSE warned \cup {tok}
    /\ ip' = ip + 1
    /\ UNCHANGED <<builder, layout, out, origin, prev, prevOrigin, lastTok, frag, inserted>>
    /\ UNCHANGED restTokens

\* if (!hasToken(TOKEN, finalMjml)) console.warn(...)
HasToken ==
    /\ AtOp("hasToken")
    /\ LET tok == Chain(builder)[ip].tok
           r == RegexTest(out, tok, 0) IN
       /\ lastIndex' = [lastIndex EXCEPT ![tok] = r.lastIndex]
       /\ warned' = IF r.found THEN warned ELSE warned \cup {tok}
    /\ ip' = ip + 1
    /\ UNCHANGED <<builder, layout, out, origin, prev, prevOrigin, lastTok, frag, inserted>>
    /\ UNCHANGED restTokens

\* finalMjml = finalMjml.replace(TOKEN, fragment)
ReplaceToken ==
    /\ AtOp("replace")
    /\ \E f \in Fragments(builder) :
         LET tok == Chain(builder)[ip].tok
             repl == IF Chain(builder)[ip].esc THEN escapeHtml(f) ELSE f IN
         /\ prev' = out
         /\ prevOrigin' = origin
         /\ lastTok' = tok
         /\ frag' = repl
         /\ inserted' = Insertions(out, tok, repl)
         /\ out' = replace(out, tok, repl)
         /\ origin' = replaceOrigin(out, origin, tok, repl)
         /\ lastIndex' = [lastIndex EXCEPT ![tok] = lastIndexAfterReplace(@)]
    /\ ip' = ip + 1
    /\ UNCHANGED <<builder, layout, warned>>
    /\ UNCHANGED restTokens

\* let out = sectionTpl: the next topic starts from the template again.
NextTopic ==
    /\ AtOp("restart")
    /\ out' = layout
    /\ origin' = Const(Len(layout), "tpl")
    /\ prev' = layout
    /\ prevOrigin' = Const(Len(layout), "tpl")
    /\ lastTok' = ""
    /\ frag' = <<>>
    /\ inserted' = <<>>
    /\ ip' = ip + 1
    /\ UNCHANGED <<builder, layout, lastIndex, warned>>
    /\ UNCHANGED restTokens

ChainDone == ip > Len(Chain(builder))

(***************************************************************************)
(* Properties of the substitution chain                                     *)
(***************************************************************************)
\* Occurrences of the token `name` in s, by the shape of a placeholder:
\* "{{%", any whitespace, NAME, any whitespace, "%}}".  <<p, q>>: first and
\* last lexeme.
Occurrences(s, name) ==
    { pq \in (1..Len(s)) \X (1..Len(s)) :
        /\ s[pq[1]] = OPEN /\ s[pq[2]] = CLOSE
        /\ \E i \in (pq[1] + 1)..(pq[2] - 1) :
             /\ s[i] = name
             /\ \A k \in ((pq[1] + 1)..(pq[2] - 1)) \ {i} : s[k] = WS }

Replaced == lastTok # ""

PlaceholderNames == AllTokens \cup {UNSUPPLIED, "in_this_edition_table"}

\* C5: a replace call puts the same text, the fragment, at every occurrence
\* of its token (whitespace inside the delimiters tolerated, name matched
\* case-sensitively), and none of these occurrences is left in the result.
C5_EveryOccurrenceReplacedIdentically ==
    Replaced =>
        /\ Len(inserted) = Cardinality(Occurrences(prev, lastTok))
        /\ \A i \in 1..Len(inserted) : inserted[i] = frag
        /\ (Occurrences(frag, lastTok) = {} => Occurrences(out, lastTok) = {})

\* C6: a replace call of the chain never matches text that an earlier
\* replace call of the chain inserted.
C6_NoRematchOfInsertedText ==
    Replaced =>
        \A pq \in Occurrences(prev, lastTok) :
            \A k \in pq[1]..pq[2] : prevOrigin[k] = "tpl"

\* C7: the markup handed to the compiler holds no placeholder of the layout
\* template, whatever its name.
C7_NoPlaceholderLeft ==
    ChainDone =>
        \A name \in PlaceholderNames :
            \A pq \in Occurrences(out, name) :
                \E k \in pq[1]..pq[2] : origin[k] = "frag"

\* C8: the text put at each token position is the fragment, character for
\* character: the result is the replaced string with the fragment spliced
\* in at every match.
C8_FragmentInsertedVerbatim ==
    Replaced =>
        out = Splice(prev, 1, Matches(prev, lastTok),
                     Const(Len(Matches(prev, lastTok)), frag), 1)

\* C20: once main() has replaced its tokens, every token of the builder that
\* layout.mjml does not hold has had its warning logged.
C20_AbsentTokenIsWarned ==
    ChainDone =>
        \A tok \in TokensOf(builder) :
            Occurrences(layout, tok) = {} => tok \in warned

(***************************************************************************)
(* Section extractors: the walk over the siblings that follow a marker      *)
(***************************************************************************)
\* Element kinds of the converted document.  "h2e" and "h3e" are headings
\* whose cleaned text is empty; "ul" stands for a list (ul or ol); "div" is
\* a wrapper whose direct children are DivChildren.
Kinds == {"h2", "h2e", "h3", "h3e", "p", "ul", "img", "div"}

DivChildren == <<"p", "ul", "img">>

\* tag: (el[0]?.tagName || "").toLowerCase()
Tag(k) ==
    CASE k \in {"h2", "h2e"} -> "h2"
      [] k \in {"h3", "h3e"} -> "h3"
      [] OTHER -> k

\* txt: cleanText(el.text()) is not empty
HasText(k) == k \in {"h2", "h3", "p", "ul", "div"}

\* The section of each extractor: which headings its walk recognises, what
\* it collects, what it returns, and the layout token of the section.
\*   needsTxt   h2 / h3 count only with text          (tag === "h2" && txt)
\*   collects   sibling tags pushed to the open topic
\*   divPicks   tags of a div's direct children pushed to the open topic
\*   skipsImg   an img is passed over before the h3 check
\*   single     only the first h3 opens a topic
\*   filter     which topics the return statement keeps
extractSpotlightTopics ==
    [needsTxt |-> FALSE, collects |-> {"p", "ul", "img"}, divPicks |-> {"p", "ul", "img"},
     skipsImg |-> FALSE, single |-> FALSE, filter |-> "all", token |-> "SPOTLIGHT_SECTIONS"]

extractLongStoryShort ==
    [needsTxt |-> FALSE, collects |-> {"p", "ul", "img"}, divPicks |-> {"p", "ul", "img"},
     skipsImg |-> FALSE, single |-> FALSE, filter |-> "all", token |-> "LONG_STORY_SHORT_SECTIONS"]

extractSpotlightGS ==
    [needsTxt |-> TRUE, collects |-> {"p", "ul", "img"}, divPicks |-> {"p", "ul", "img"},
     skipsImg |-> FALSE, single |-> FALSE, filter |-> "title", token |-> "SPOTLIGHT_SECTION"]

extractFoundationsGS ==
    [needsTxt |-> TRUE, collects |-> {"p", "ul", "img"}, divPicks |-> {"p", "ul", "img"},
     skipsImg |-> FALSE, single |-> FALSE, filter |-> "title", token |-> "FOUNDATIONS_SECTION"]

extractAnalysisGS ==
    [needsTxt |-> TRUE, collects |-> {"p", "ul", "img"}, divPicks |-> {"p", "ul", "img"},
     skipsImg |-> FALSE, single |-> FALSE, filter |-> "title", token |-> "ANALYSIS_SECTION"]

extractSpotlightDubai ==
    [needsTxt |-> TRUE, collects |-> {"p", "ul"}, divPicks |-> {"p", "ul"},
     skipsImg |-> FALSE, single |-> FALSE, filter |-> "titleAndNodes", token |-> "SPOTLIGHT_SECTION"]

extractMeanwhileDubai ==
    [needsTxt |-> TRUE, collects |-> {"p"}, divPicks |-> {"p"},
     skipsImg |-> FALSE, single |-> FALSE, filter |-> "titleAndNodes", token |-> "MEANWHILE_SECTION"]

\* Career: the first h3 with text gives the title, the paragraphs after it
\* are the tags and the body.
extractCareerDubai ==
    [needsTxt |-> TRUE, collects |-> {"p"}, divPicks |-> {"p"},
     skipsImg |-> FALSE, single |-> TRUE, filter |-> "title", token |-> "CAREER_SECTION"]

extractSpotlightLondon ==
    [needsTxt |-> TRUE, collects |-> {"p", "ul"}, divPicks |-> {"p", "ul"},
     skipsImg |-> FALSE, single |-> FALSE, filter |-> "titleAndNodes", token |-> "SPOTLIGHT_SECTION"]

\* London long story short: categories of bullet items; a div gives its
\* lists when it has any (DivChildren has one), else its paragraphs.
extractLongStoryShortLondon ==
    [needsTxt |-> TRUE, collects |-> {"p", "ul"}, divPicks |-> {"ul"},
     skipsImg |-> TRUE, single |-> FALSE, filter |-> "titleAndNodes", token |-> "LONG_STORY_SHORT_SECTION"]

Extractors ==
    {"extractSpotlightTopics", "extractLongStoryShort", "extractSpotlightGS",
     "extractFoundationsGS", "extractAnalysisGS", "extractSpotlightDubai",
     "extractMeanwhileDubai", "extractCareerDubai", "extractSpotlightLondon",
     "extractLongStoryShortLondon"}

Cfg(ex) ==
    CASE ex = "extractSpotlightTopics" -> extractSpotlightTopics
      [] ex = "extractLongStoryShort" -> extractLongStoryShort
      [] ex = "extractSpotlightGS" -> extractSpotlightGS
      [] ex = "extractFoundationsGS" -> extractFoundationsGS
      [] ex = "extractAnalysisGS" -> extractAnalysisGS
      [] ex = "extractSpotlightDubai" -> extractSpotlightDubai
      [] ex = "extractMeanwhileDubai" -> extractMeanwhileDubai
      [] ex = "extractCareerDubai" -> extractCareerDubai
      [] ex = "extractSpotlightLondon" -> extractSpotlightLondon
      [] ex = "extractLongStoryShortLondon" -> extractLongStoryShortLondon

\* if (tag === "h2") break;   /   if (tag === "h2" && txt) break;
StopsAt(c, k) == Tag(k) = "h2" /\ (c.needsTxt => HasText(k))

\* if (tag === "h3") {...}    /   if (tag === "h3" && txt) {...}
OpensAt(c, k) == Tag(k) = "h3" /\ (c.needsTxt => HasText(k))

\* A node is <<i, 0>>: the i-th sibling itself, or <<i, j>>: the j-th child
\* of the div that is the i-th sibling.
\* What the element at position i adds to the open topic.
Collected(c, s, i) ==
    IF s[i] \in c.collects THEN << <<i, 0>> >>
    ELSE IF s[i] = "div"
    THEN SelectSeq([j \in 1..Len(DivChildren) |-> <<i, j>>],
                   LAMBDA n : DivChildren[n[2]] \in c.divPicks)
    ELSE <<>>

\* Mutation of OpenTopic: the new topic starts with the nodes of the one before.
OpenTopicKeepingNodes(k, i, cur) ==
    [title |-> IF HasText(k) THEN "t" ELSE "",
     at |-> i,
     nodes |-> IF cur = <<>> THEN <<>> ELSE cur[1].nodes]

\* current = { title: cleanText($(el).text()), nodes: [] }
\* (at: position of the heading, kept to tell the topics apart)
OpenTopic(k, i, cur) ==
    [title |-> IF HasText(k) THEN "t" ELSE "", at |-> i, nodes |-> <<>>]

\* Mutation of pushToCurrent: content met before any sub-heading opens a
\* topic without a title.
pushOrOpen(c, s, i, cur) ==
    IF cur = <<>>
    THEN (IF Collected(c, s, i) = <<>> THEN <<>>
          ELSE <<[title |-> "", at |-> 0, nodes |-> Collected(c, s, i)]>>)
    ELSE <<[cur[1] EXCEPT !.nodes = @ \o Collected(c, s, i)]>>

\* if (!current) { el = el.next(); continue; }  then the pushes to
\* current.nodes: with no topic open the element is passed over.
pushToCurrent(c, s, i, cur) ==
    IF cur = <<>> THEN <<>>
    ELSE <<[cur[1] EXCEPT !.nodes = @ \o Collected(c, s, i)]>>

\* The while loop: el at position i, `cur` is current (<<>> for null, else one
\* topic), `acc` the topics pushed so far.  Returns the list after the loop
\* and the trailing  if (current) topics.push(current).
RECURSIVE Walk(_, _, _, _, _)
Walk(c, s, i, cur, acc) ==
    IF i > Len(s) THEN acc \o cur
    ELSE IF StopsAt(c, s[i]) THEN acc \o cur
    ELSE IF c.skipsImg /\ s[i] = "img" THEN Walk(c, s, i + 1, cur, acc)
    ELSE IF OpensAt(c, s[i]) /\ ~(c.single /\ cur # <<>>)
    THEN Walk(c, s, i + 1, <<OpenTopic(s[i], i, cur)>>, acc \o cur)
    ELSE Walk(c, s, i + 1, pushToCurrent(c, s, i, cur), acc)

\* return stories.filter(...)
Keeps(c, t) ==
    CASE c.filter = "all" -> TRUE
      [] c.filter = "title" -> t.title # ""
      [] c.filter = "titleAndNodes" -> t.title # "" /\ t.nodes # <<>>

\* The extractor: no marker, no topics; else the filtered walk.
extract(ex, marker, s) ==
    IF ~marker THEN <<>>
    ELSE SelectSeq(Walk(Cfg(ex), s, 1, <<>>, <<>>), LAMBDA t : Keeps(Cfg(ex), t))

\* Mutation of render: an empty result gives the section's frame all the same.
renderFrame(ex, ts) == <<"x">> \o [i \in 1..Len(ts) |-> "x"]

\* The renderer: "" for an empty result, else the markup of the topics (one
\* lexeme of markup for each).
render(ex, ts) == IF ts = <<>> THEN <<>> ELSE [i \in 1..Len(ts) |-> "x"]

\* Layouts a section is injected into: the token alone, and the token with
\* inner whitespace between other markup.
SectionLayouts(tok) ==
    { <<OPEN, tok, CLOSE>>, <<"x", OPEN, WS, tok, CLOSE, "x">> }

InitExtract ==
    /\ extractor \in Extractors
    /\ hasMarker \in BOOLEAN
    /\ siblings \in SeqsUpTo(Kinds, MaxSiblings)
    /\ layoutMjml \in SectionLayouts(Cfg(extractor).token)
    /\ phase = "start"
    /\ topics = <<>>
    /\ sectionMjml = <<>>
    /\ finalMjml = layoutMjml
    /\ IdleTokens
    /\ IdleSanitize
    /\ IdleBody
    /\ IdleEdition
    /\ IdleRun
    /\ IdleConcurrent
    /\ IdleSpotlight
    /\ IdleLss
    /\ IdleParse
    /\ IdleCareer
    /\ IdleWhatsOn

\* const topics = extractX(docHtml)
Extract ==
    /\ phase = "start"
    /\ topics' = extract(extractor, hasMarker, siblings)
    /\ phase' = "extracted"
    /\ UNCHANGED <<extractor, hasMarker, siblings, sectionMjml, layoutMjml, finalMjml>>
    /\ UNCHANGED restExtract

\* const mjml = renderX(topics)
Render ==
    /\ phase = "extracted"
    /\ sectionMjml' = render(extractor, topics)
    /\ phase' = "rendered"
    /\ UNCHANGED <<extractor, hasMarker, siblings, topics, layoutMjml, finalMjml>>
    /\ UNCHANGED restExtract

\* finalMjml = finalMjml.replace(TOKEN_X, mjml)
Inject ==
    /\ phase = "rendered"
    /\ finalMjml' = replace(layoutMjml, Cfg(extractor).token, sectionMjml)
    /\ phase' = "done"
    /\ UNCHANGED <<extractor, hasMarker, siblings, topics, sectionMjml, layoutMjml>>
    /\ UNCHANGED restExtract

(***************************************************************************)
(* Properties of the section extractors                                     *)
(***************************************************************************)
Extracted == phase \in {"extracted", "rendered", "done"}

\* The extractors that return one topic for each sub-heading (Spotlight,
\* Long story short, Foundations, Analysis, Meanwhile).
TopicExtractors == Extractors \ {"extractCareerDubai"}

Range(f) == {f[i] : i \in DOMAIN f}

Least(S, default) == IF S = {} THEN default ELSE CHOOSE i \in S : \A j \in S : i <= j

\* Position of the first heading after position a that the extractor treats
\* as a sub-heading or as the end of the section; Len(s) + 1 when none.
NextHeading(c, s, a) ==
    Least({i \in (a + 1)..Len(s) : StopsAt(c, s[i]) \/ OpensAt(c, s[i])}, Len(s) + 1)

\* Position of the first h2 element, with or without text; Len(s) + 1 when none.
FirstH2(s) == Least({i \in 1..Len(s) : Tag(s[i]) = "h2"}, Len(s) + 1)

\* The nodes strictly between positions a and b, in document order, that are
\* siblings of a kind in sibKinds or div children of a kind in childKinds.
NodesBetween(s, a, b, sibKinds, childKinds) ==
    Concat([d \in 1..(b - a - 1) |->
        IF s[a + d] \in sibKinds THEN << <<a + d, 0>> >>
        ELSE IF s[a + d] = "div"
        THEN SelectSeq([j \in 1..Len(DivChildren) |-> <<a + d, j>>],
                       LAMBDA n : DivChildren[n[2]] \in childKinds)
        ELSE <<>>])

Disjoint(ts) ==
    \A m, n \in 1..Len(ts) :
        m # n => Range(ts[m].nodes) \cap Range(ts[n].nodes) = {}

ClaimedKinds == {"p", "ul", "img"}

C2_NothingPastFirstH2 ==
    Extracted =>
        \A n \in 1..Len(topics) :
            /\ topics[n].at < FirstH2(siblings)
            /\ \A k \in 1..Len(topics[n].nodes) :
                 topics[n].nodes[k][1] < FirstH2(siblings)

\* C3: the extractor returns one topic for each h3 between the marker and
\* the terminating h2, in document order, empty bodies included (stated for
\* documents whose headings all have text).
C3_OneTopicPerH3 ==
    (/\ Extracted /\ hasMarker /\ extractor \in TopicExtractors
     /\ \A i \in 1..Len(siblings) : siblings[i] \notin {"h2e", "h3e"}) =>
        [n \in 1..Len(topics) |-> topics[n].at] =
            SelectSeq([i \in 1..Len(siblings) |-> i],
                      LAMBDA i : Tag(siblings[i]) = "h3" /\ i < FirstH2(siblings))

\* Position of the heading that ends the walk; Len(s) + 1 when none.
SectionEnd(c, s) == Least({i \in 1..Len(s) : StopsAt(c, s[i])}, Len(s) + 1)

\* Position of the first sub-heading of the section; Len(s) + 1 when none.
FirstSubHeading(c, s) ==
    Least({i \in 1..(SectionEnd(c, s) - 1) : OpensAt(c, s[i])}, Len(s) + 1)

\* C24: what stands between the marker and the first sub-heading is in no
\* topic's body and opens no topic of its own, and a section without a
\* sub-heading gives an empty result whatever content it has.
C24_ContentBeforeFirstSubHeadingIsDiscarded ==
    (Extracted /\ hasMarker) =>
        LET c == Cfg(extractor)
            first == FirstSubHeading(c, siblings)
        IN /\ \A n \in 1..Len(topics) :
                /\ topics[n].at \in first..Len(siblings)
                /\ OpensAt(c, siblings[topics[n].at])
                /\ \A k \in 1..Len(topics[n].nodes) : topics[n].nodes[k][1] > first
           /\ first = Len(siblings) + 1 => topics = <<>>

\* A paragraph stood between the marker and the first sub-heading, another
\* after it: the topic holds the second alone.
C24_Witness ==
    /\ Extracted /\ hasMarker /\ extractor = "extractSpotlightDubai"
    /\ siblings = <<"p", "h3", "p">>
    /\ Len(topics) = 1 /\ topics[1].nodes = << <<3, 0>> >>

\* s without the lexemes of the placeholders of `name`.
Without(s, name) ==
    LET idx == SelectSeq([i \in 1..Len(s) |-> i],
                         LAMBDA i : \A pq \in Occurrences(s, name) : i < pq[1] \/ i > pq[2])
    IN [k \in 1..Len(idx) |-> s[idx[k]]]

\* C4: when the document has no marker of the section, the extractor returns
\* an empty result, the renderer returns the empty string, the section's
\* token is replaced by the empty string.
C4_NoMarkerGivesEmptySection ==
    (~hasMarker /\ phase # "idle") =>
        /\ Extracted => topics = <<>>
        /\ phase \in {"rendered", "done"} => sectionMjml = <<>>
        /\ phase = "done" =>
             /\ Occurrences(finalMjml, Cfg(extractor).token) = {}
             /\ finalMjml = Without(layoutMjml, Cfg(extractor).token)

\* A document with headings and content but no marker went through all
\* three steps.
C4_Witness ==
    /\ ~hasMarker /\ phase = "done"
    /\ \E i, j \in 1..Len(siblings) : siblings[i] = "h3" /\ siblings[j] = "p" /\ i < j
    /\ Len(finalMjml) < Len(layoutMjml)

(***************************************************************************)
(* The Spotlight renderers: one block for each story, the heading, the ad   *)
(*                                                                          *)
(* A piece of the output is [kind, from, title, heading]: the block of the  *)
(* story at position `from`, with or without the "Spotlight" heading, the   *)
(* ad block, or the spacer the presidential builder puts between stories.   *)
(***************************************************************************)
SpotlightRenderers ==
    {"renderSpotlightSections", "renderSpotlightGS", "renderSpotlightDubai",
     "renderSpotlightLondon"}

StoryBlock(i, title, heading) ==
    [kind |-> "story", from |-> i, title |-> title, heading |-> heading]

AdBlock == [kind |-> "ad", from |-> 0, title |-> "", heading |-> FALSE]

SpacerBlock == [kind |-> "spacer", from |-> 0, title |-> "", heading |-> FALSE]

\* idx === 0 ? spotlightHeaderBlock : spacer   /   ${idx === 0 ? SPOTLIGHT_HEADING : ""}
\* The London block has no heading: it opens with the image.
suppliesHeading(r, i) == r # "renderSpotlightLondon" /\ i = 1

\* Mutation of insertsAd: the ad follows every story but the last.
insertsAdBetween(i, n) == i < n

\* if (idx === 0 && stories.length > 1)
insertsAd(i, n) == i = 1 /\ n > 1

\* What one turn of the loop adds to the output.
spotlightPieces(r, stories, i) ==
    <<StoryBlock(i, stories[i], suppliesHeading(r, i))>>
        \o (IF insertsAd(i, Len(stories)) THEN <<AdBlock>> ELSE <<>>)
        \o (IF r = "renderSpotlightSections" /\ i < Len(stories) THEN <<SpacerBlock>> ELSE <<>>)

InitSpotlight ==
    /\ spRenderer \in SpotlightRenderers
    /\ spStories \in SeqsUpTo({"a", "b"}, MaxStories)
    /\ spIdx = 1
    /\ spBlocks = <<>>
    /\ spMjml = <<>>
    /\ spDone = FALSE
    /\ IdleTokens
    /\ IdleExtract
    /\ IdleSanitize
    /\ IdleBody
    /\ IdleEdition
    /\ IdleRun
    /\ IdleConcurrent
    /\ IdleLss
    /\ IdleParse
    /\ IdleCareer
    /\ IdleWhatsOn

\* if (!stories?.length) return ""
ReturnNoSpotlight ==
    /\ ~spDone /\ spStories = <<>>
    /\ spMjml' = <<>>
    /\ spDone' = TRUE
    /\ UNCHANGED <<spRenderer, spStories, spIdx, spBlocks>>
    /\ UNCHANGED restSpotlight

\* One call of the callback of stories.map / topics.forEach.
RenderStory ==
    /\ ~spDone /\ spIdx \in 1..Len(spStories)
    /\ spBlocks' = spBlocks \o spotlightPieces(spRenderer, spStories, spIdx)
    /\ spIdx' = spIdx + 1
    /\ UNCHANGED <<spRenderer, spStories, spMjml, spDone>>
    /\ UNCHANGED restSpotlight

\* return blocks.join("\n\n")
JoinBlocks ==
    /\ ~spDone /\ spStories # <<>> /\ spIdx = Len(spStories) + 1
    /\ spMjml' = spBlocks
    /\ spDone' = TRUE
    /\ UNCHANGED <<spRenderer, spStories, spIdx, spBlocks>>
    /\ UNCHANGED restSpotlight

(***************************************************************************)
(* Properties of the Spotlight renderers                                    *)
(***************************************************************************)
StoriesOf(m) == SelectSeq(m, LAMBDA b : b.kind = "story")

AdsOf(m) == {j \in 1..Len(m) : m[j].kind = "ad"}

\* The stories stand in extraction order, and the ad stands once, right
\* after the block of the first story, when there are two stories or more,
\* and not at all when there is one.
StoriesInOrderWithOneAd ==
    /\ [k \in 1..Len(StoriesOf(spMjml)) |-> StoriesOf(spMjml)[k].title] = spStories
    /\ \A k \in 1..Len(StoriesOf(spMjml)) : StoriesOf(spMjml)[k].from = k
    /\ spMjml[1].kind = "story"
    /\ AdsOf(spMjml) = IF Len(spStories) >= 2 THEN {2} ELSE {}

Category(title, items) == [title |-> title, items |-> items]

\* String.prototype.toLowerCase on the titles of the model.
toLowerCase(t) ==
    CASE t \in {"Business", "BUSINESS", "business"} -> "business"
      [] t = "Business news" -> "business news"
      [] t = "Sport" -> "sport"
      [] OTHER -> t

\* .filter((c) => c.title && c.items.length)
cleanedCategories(cats) == SelectSeq(cats, LAMBDA c : c.title # "" /\ c.items > 0)

\* cleaned.findIndex((c) => c.title.toLowerCase() === "business"), 1-based;
\* 0 when there is none.
findIndexBusiness(cleaned) ==
    Least({i \in 1..Len(cleaned) : toLowerCase(cleaned[i].title) = "business"}, 0)

\* Mutation of splitAt: the category found opens the second list.
splitBefore(cleaned, idx) ==
    IF idx >= 1
    THEN [first |-> SubSeq(cleaned, 1, idx - 1), second |-> SubSeq(cleaned, idx, Len(cleaned))]
    ELSE [first |-> cleaned, second |-> <<>>]

\* first = idx >= 0 ? cleaned.slice(0, idx + 1) : cleaned
\* second = idx >= 0 ? cleaned.slice(idx + 1) : []
splitAt(cleaned, idx) ==
    IF idx >= 1
    THEN [first |-> SubSeq(cleaned, 1, idx), second |-> SubSeq(cleaned, idx + 1, Len(cleaned))]
    ELSE [first |-> cleaned, second |-> <<>>]

\* The end of extractLongStoryShortLondon, from `categories` on.
splitLongStoryShort(cats) ==
    IF cleanedCategories(cats) = <<>> THEN [first |-> <<>>, second |-> <<>>]
    ELSE splitAt(cleanedCategories(cats), findIndexBusiness(cleanedCategories(cats)))

\* renderLongStoryShortLondon: "", card 1, or card 1 and card 2.
renderLongStoryShortLondon(data) ==
    IF data.first = <<>> /\ data.second = <<>> THEN <<>>
    ELSE IF data.second = <<>> THEN <<[card |-> 1, categories |-> data.first]>>
    ELSE <<[card |-> 1, categories |-> data.first], [card |-> 2, categories |-> data.second]>>

LssCategories ==
    {Category(t, n) : t \in {"Business", "BUSINESS", "Business news", "Sport"}, n \in 0..1}

InitLss ==
    /\ lssCategories \in SeqsUpTo(LssCategories, MaxCategories)
    /\ lssData = <<>>
    /\ lssCards = <<>>
    /\ lssPhase = "start"
    /\ IdleTokens
    /\ IdleExtract
    /\ IdleSanitize
    /\ IdleBody
    /\ IdleEdition
    /\ IdleRun
    /\ IdleConcurrent
    /\ IdleSpotlight
    /\ IdleParse
    /\ IdleCareer
    /\ IdleWhatsOn

\* const lss = extractLongStoryShortLondon(html)
ExtractLss ==
    /\ lssPhase = "start"
    /\ lssData' = splitLongStoryShort(lssCategories)
    /\ lssPhase' = "extracted"
    /\ UNCHANGED <<lssCategories, lssCards>>
    /\ UNCHANGED restLss

\* renderLongStoryShortLondon(lss)
RenderLss ==
    /\ lssPhase = "extracted"
    /\ lssCards' = renderLongStoryShortLondon(lssData)
    /\ lssPhase' = "rendered"
    /\ UNCHANGED <<lssCategories, lssData>>
    /\ UNCHANGED restLss

(***************************************************************************)
(* Properties of the London long story short                                *)
(***************************************************************************)
IsBusiness(c) == toLowerCase(c.title) = "business"

\* The categories with a title and at least one item, in document order.
WithTitleAndItems == SelectSeq(lssCategories, LAMBDA c : c.title # "" /\ c.items >= 1)

\* C27: `first` followed by `second` is the list of the categories that have
\* a title and at least one item, in document order; when the list holds a
\* category titled "business" in any case, `first` ends with one and
\* `second` holds the categories after it; when it holds none, `second` is
\* empty; card 1 is rendered when the list is not empty, card 2 if and only
\* if `second` is not empty, and no other card.
C27_SplitIsAPartitionAtBusiness ==
    /\ lssPhase \in {"extracted", "rendered"} =>
         /\ lssData.first \o lssData.second = WithTitleAndItems
         /\ IF \E i \in 1..Len(WithTitleAndItems) : IsBusiness(WithTitleAndItems[i])
            THEN /\ lssData.first # <<>>
                 /\ IsBusiness(lssData.first[Len(lssData.first)])
            ELSE lssData.second = <<>>
    /\ lssPhase = "rendered" =>
         /\ (\E k \in 1..Len(lssCards) : lssCards[k].card = 1) <=> WithTitleAndItems # <<>>
         /\ (\E k \in 1..Len(lssCards) : lssCards[k].card = 2) <=> lssData.second # <<>>
         /\ \A k \in 1..Len(lssCards) :
              lssCards[k].categories = IF lssCards[k].card = 1 THEN lssData.first
                                       ELSE lssData.second
         /\ Len(lssCards) <= 2

\* A category without items, then "BUSINESS", then another category: both
\* cards were rendered.
C27_Witness ==
    /\ lssPhase = "rendered" /\ Len(lssCategories) = 3
    /\ lssCategories[1].items = 0
    /\ lssCategories[2] = Category("BUSINESS", 1)
    /\ lssCategories[3] = Category("Sport", 1)
    /\ Len(lssCards) = 2

(***************************************************************************)
(* The inline sanitizer                                                     *)
(*                                                                          *)
(* An HTML string is a sequence of lexemes [k, tag, target, style]:         *)
(*   k = "open"   a start tag with its target and style attributes          *)
(*   k = "close"  an end tag                                                *)
(*   k = "text"   one character of text; `tag` holds the character.  The    *)
(*                characters "<u>", "</u>", "<a>", "</a>" are text that     *)
(*                spells markup: in an HTML string they stand written with  *)
(*                entities (&lt;u&gt;), in a text node they are decoded.    *)
(* A node of the parsed document is [tag, target, style, kids, text]; a     *)
(* text node has tag "#text".  " " is a space, "nbsp" is U+00A0.            *)
(***************************************************************************)
Lex(k, tag, target, style) == [k |-> k, tag |-> tag, target |-> target, style |-> style]

TextNode(t) == [tag |-> "#text", target |-> "", style |-> "", kids |-> <<>>, text |-> t]

Elem(tag, target, style, kids) ==
    [tag |-> tag, target |-> target, style |-> style, kids |-> kids, text |-> <<>>]

\* const allowed = new Set(["strong", "b", "em", "i", "a", "br"])
allowed == {"strong", "b", "em", "i", "a", "br"}

Sanitizers == {"sanitizeInlineHtml", "sanitizeInlineHtmlFooter"}

\* The style rewriteAnchors / rewriteFooterAnchors sets on every anchor.
BrandStyle(fn) ==
    IF fn = "sanitizeInlineHtmlFooter"
    THEN "text-decoration: none; border-bottom: 2px solid #fff; color: white !important;"
    ELSE "text-decoration: none; border-bottom: 2px solid #4d3060; color: black;"

\* Putting a text character after the nodes that follow it: characters next
\* to each other are one text node.
AddChar(c, ns) ==
    IF ns # <<>> /\ ns[1].tag = "#text"
    THEN <<[ns[1] EXCEPT !.text = <<c>> \o @]>> \o Tail(ns)
    ELSE <<TextNode(<<c>>)>> \o ns

\* The HTML parser, from lexeme i on, inside an element `open` ("" at the
\* top): the nodes up to the end tag of `open`, and the position after it.
\* An end tag with no element to close is dropped.
RECURSIVE ParseUntil(_, _, _)
ParseUntil(h, i, open) ==
    IF i > Len(h) THEN [nodes |-> <<>>, next |-> i]
    ELSE IF h[i].k = "close"
    THEN IF h[i].tag = open THEN [nodes |-> <<>>, next |-> i + 1]
         ELSE ParseUntil(h, i + 1, open)
    ELSE IF h[i].k = "open"
    THEN LET inner == ParseUntil(h, i + 1, h[i].tag)
             rest == ParseUntil(h, inner.next, open)
         IN [nodes |-> <<Elem(h[i].tag, h[i].target, h[i].style, inner.nodes)>> \o rest.nodes,
             next |-> rest.next]
    ELSE LET rest == ParseUntil(h, i + 1, open)
         IN [nodes |-> AddChar(h[i].tag, rest.nodes), next |-> rest.next]

\* cheerio.load(`<root>${html}</root>`, null, false): the children of root.
load(h) == ParseUntil(h, 1, "").nodes

\* $(el).text(): the characters of the text nodes below el, decoded.
RECURSIVE text(_)
text(n) ==
    IF n.tag = "#text" THEN n.text
    ELSE Concat([j \in 1..Len(n.kids) |-> text(n.kids[j])])

\* A string of decoded characters read as HTML source: what spells a tag is
\* a tag.
AsMarkup(t) ==
    [j \in 1..Len(t) |->
        CASE t[j] = "<u>" -> Lex("open", "u", "", "")
          [] t[j] = "</u>" -> Lex("close", "u", "", "")
          [] t[j] = "<a>" -> Lex("open", "a", "", "")
          [] t[j] = "</a>" -> Lex("close", "a", "", "")
          [] OTHER -> Lex("text", t[j], "", "")]

\* replaceWith(string): the string is parsed as HTML (cheerio's
\* _makeDomArray) and the nodes it yields take the element's place.
makeDomArray(str) == load(AsMarkup(str))

\* $("a").each: target and style are set on every anchor of the document.
RECURSIVE rewriteAnchors(_, _)
rewriteAnchors(ns, style) ==
    [j \in 1..Len(ns) |->
        IF ns[j].tag = "#text" THEN ns[j]
        ELSE IF ns[j].tag = "a"
        THEN [ns[j] EXCEPT !.target = "_blank", !.style = style,
                           !.kids = rewriteAnchors(@, style)]
        ELSE [ns[j] EXCEPT !.kids = rewriteAnchors(@, style)]]

\* $("root").find("*").each(...): the elements found before the loop, in
\* document order.  One outside the allow-list is replaced by its text; what
\* was below it leaves the document with it, and the nodes that take its
\* place were not found before the loop, so they are not visited.
RECURSIVE unwrap(_)
unwrap(ns) ==
    IF ns = <<>> THEN <<>>
    ELSE (IF Head(ns).tag = "#text" THEN <<Head(ns)>>
          ELSE IF Head(ns).tag \in allowed
          THEN <<[Head(ns) EXCEPT !.kids = unwrap(@)]>>
          ELSE makeDomArray(text(Head(ns))))
         \o unwrap(Tail(ns))

\* $("root").html(): text is written with entities, elements as tags.
RECURSIVE serialize(_)
serialize(ns) ==
    Concat([j \in 1..Len(ns) |->
        IF ns[j].tag = "#text"
        THEN [m \in 1..Len(ns[j].text) |-> Lex("text", ns[j].text[m], "", "")]
        ELSE <<Lex("open", ns[j].tag, ns[j].target, ns[j].style)>>
             \o serialize(ns[j].kids)
             \o <<Lex("close", ns[j].tag, "", "")>>])

\* normalizeDashes: every dash character becomes "-".
normalizeDashes(h) ==
    [j \in 1..Len(h) |->
        IF h[j].k = "text" /\ h[j].tag = "mdash" THEN [h[j] EXCEPT !.tag = "-"] ELSE h[j]]

\* String.prototype.trim on a sequence: the elements of ws at either end go.
RECURSIVE trim(_, _)
trim(s, ws) ==
    IF s = <<>> THEN <<>>
    ELSE IF Head(s) \in ws THEN trim(Tail(s), ws)
    ELSE IF s[Len(s)] \in ws THEN trim(SubSeq(s, 1, Len(s) - 1), ws)
    ELSE s

\* Whitespace as it stands in an HTML string.  html() writes U+00A0 as an
\* entity, so trim() of the string leaves it.
Space == [k |-> "text", tag |-> " ", target |-> "", style |-> ""]

\* sanitizeInlineHtml as one function of its argument: load, rewriteAnchors,
\* the loop over the elements, html(), trim(), normalizeDashes.
sanitizeInlineHtml(fn, h) ==
    normalizeDashes(trim(serialize(unwrap(rewriteAnchors(load(h), BrandStyle(fn)))), {Space}))

(***************************************************************************)
(* Inputs of the sanitizer: the inner HTML of a paragraph of the converted  *)
(* document                                                                 *)
(***************************************************************************)
\* Text runs: a word, a dash, and text that spells an element.
Texts == { <<"w">>, <<"mdash">>, <<"<u>", "w", "</u>">>, <<"<a>", "w", "</a>">> }

\* Elements: an anchor without attributes, an anchor with a target and a
\* style of its own, an allowed formatting element, one that is not allowed.
Heads == { <<"a", "", "">>, <<"a", "_self", "old">>, <<"b", "", "">>, <<"span", "", "">> }

HasAnchor(ns) == \E j \in 1..Len(ns) : ns[j].tag = "a" \/ (ns[j].kids # <<>> /\ ns[j].kids[1].tag = "a")

Level0 == {TextNode(t) : t \in Texts}

Level1 == Level0 \cup {Elem(h[1], h[2], h[3], ks) : h \in Heads, ks \in SeqsUpTo(Level0, 1)}

\* No anchor below an anchor: the parser never builds one.
Level2 ==
    Level0 \cup
    UNION { { Elem(h[1], h[2], h[3], ks) :
                ks \in {k \in SeqsUpTo(Level1, 1) : h[1] = "a" => ~HasAnchor(k)} } :
            h \in Heads }

Fragment == SeqsUpTo(Level2, MaxTop)

InitSanitize ==
    /\ sanitizer \in Sanitizers
    /\ html \in {serialize(ns) : ns \in Fragment}
    /\ dom = <<>>
    /\ sanitized = <<>>
    /\ step = "start"
    /\ IdleTokens
    /\ IdleExtract
    /\ IdleBody
    /\ IdleEdition
    /\ IdleRun
    /\ IdleConcurrent
    /\ IdleSpotlight
    /\ IdleLss
    /\ IdleParse
    /\ IdleCareer
    /\ IdleWhatsOn

\* const $ = cheerio.load(`<root>${html}</root>`, null, false)
Load ==
    /\ step = "start"
    /\ dom' = load(html)
    /\ step' = "loaded"
    /\ UNCHANGED <<sanitizer, html, sanitized>>
    /\ UNCHANGED restSanitize

\* rewriteAnchors($)
RewriteAnchors ==
    /\ step = "loaded"
    /\ dom' = rewriteAnchors(dom, BrandStyle(sanitizer))
    /\ step' = "anchors"
    /\ UNCHANGED <<sanitizer, html, sanitized>>
    /\ UNCHANGED restSanitize

\* $("root").find("*").each(...)
Unwrap ==
    /\ step = "anchors"
    /\ dom' = unwrap(dom)
    /\ step' = "unwrapped"
    /\ UNCHANGED <<sanitizer, html, sanitized>>
    /\ UNCHANGED restSanitize

\* return normalizeDashes($("root").html()?.trim() || "")
Serialize ==
    /\ step = "unwrapped"
    /\ sanitized' = normalizeDashes(trim(serialize(dom), {Space}))
    /\ step' = "done"
    /\ UNCHANGED <<sanitizer, html, dom>>
    /\ UNCHANGED restSanitize

(***************************************************************************)
(* Properties of the sanitizer                                              *)
(***************************************************************************)
\* C9: the string the sanitizer returns holds no element whose tag is
\* outside the allow-list {strong, b, em, i, a, br}.
C9_OnlyAllowedElements ==
    step = "done" =>
        \A j \in 1..Len(sanitized) :
            sanitized[j].k = "open" => sanitized[j].tag \in allowed

\* C10: every anchor of the string the sanitizer returns has target
\* "_blank" and, as its style, exactly the brand style.
C10_AnchorsCarryTargetAndBrandStyle ==
    step = "done" =>
        \A j \in 1..Len(sanitized) :
            (sanitized[j].k = "open" /\ sanitized[j].tag = "a") =>
                /\ sanitized[j].target = "_blank"
                /\ sanitized[j].style = BrandStyle(sanitizer)

\* C11: sanitizing the string the sanitizer returned gives that string again.
C11_SanitizeIsIdempotent ==
    step = "done" => sanitizeInlineHtml(sanitizer, sanitized) = sanitized

\* The plain text of an HTML string: the characters of its text nodes.
plainText(h) == Concat([j \in 1..Len(load(h)) |-> text(load(h)[j])])

\* The dash characters of a text replaced by "-".
DashesMapped(t) == [j \in 1..Len(t) |-> IF t[j] = "mdash" THEN "-" ELSE t[j]]

\* C22: the plain text of the string the sanitizer returns is the plain text
\* of its argument with every dash mapped to "-" and the whitespace at both
\* ends removed: no character of text is lost or added.
C22_SanitizeKeepsAllText ==
    step = "done" =>
        plainText(sanitized) = trim(DashesMapped(plainText(html)), {" ", "nbsp"})

(***************************************************************************)
(* renderBodyHtml: the body of a topic                                      *)
(*                                                                          *)
(* A body node is [tag, inner]: a paragraph with its inner HTML, a list, or *)
(* an element renderBodyHtml has no branch for.                             *)
(***************************************************************************)
MaxBody == 3       \* nodes of a topic body

\* Only the empty string counts as empty.
isEmptyString(h) == h = <<>>

\* isEmptyRichText: the text of the parsed fragment, U+00A0 replaced by a
\* space, trimmed, has length 0.
isEmptyRichText(h) ==
    LET t == Concat([j \in 1..Len(load(h)) |-> text(load(h)[j])])
        spaced == [j \in 1..Len(t) |-> IF t[j] = "nbsp" THEN " " ELSE t[j]]
    IN Len(trim(spaced, {" "})) = 0

\* Inner HTML of the paragraphs of a converted document.
ParagraphInners ==
    { serialize(ns) : ns \in
        { <<>>,
          <<TextNode(<<"w">>)>>,
          <<TextNode(<<" ", "w", " ">>)>>,
          <<TextNode(<<" ">>)>>,
          <<TextNode(<<"nbsp">>)>>,
          <<Elem("b", "", "", <<>>)>>,
          <<Elem("span", "", "", <<TextNode(<<"nbsp", " ">>)>>)>>,
          <<Elem("b", "", "", <<TextNode(<<"w">>)>>)>> } }

BodyNode(tag, inner) == [tag |-> tag, inner |-> inner]

\* Inner HTML of the lists of a converted document: items with text, with
\* allowed inline elements, with a superscript, with a list of their own.
ListInners ==
    { serialize(ns) : ns \in
        { <<Elem("li", "", "", <<TextNode(<<"w">>)>>)>>,
          <<Elem("li", "", "", <<Elem("a", "", "", <<TextNode(<<"w">>)>>)>>),
            Elem("li", "", "", <<Elem("b", "", "", <<TextNode(<<"w">>)>>)>>)>>,
          <<Elem("li", "", "", <<Elem("sup", "", "", <<TextNode(<<"w">>)>>)>>)>>,
          <<Elem("li", "", "", <<TextNode(<<"w">>),
                Elem("ul", "", "", <<Elem("li", "", "", <<TextNode(<<"w">>)>>)>>)>>)>> } }

BodyNodes ==
    {BodyNode("p", h) : h \in ParagraphInners}
        \cup {BodyNode("ul", h) : h \in ListInners}
        \cup {BodyNode("ol", serialize(<<Elem("li", "", "", <<TextNode(<<"w">>)>>)>>)),
              BodyNode("img", <<>>)}

\* `<p style="${pStyle}">${inner}</p>` when wrapP, inner otherwise.
paragraphHtml(wrap, inner) ==
    IF wrap
    THEN <<Lex("open", "p", "", "pStyle")>> \o inner \o <<Lex("close", "p", "", "")>>
    ELSE inner

ListStyle == "margin: 0 0 10px 18px; padding: 0"

ItemStyle == "font-size: 16px; line-height: 1.5; margin-bottom: 6px;"

\* str.replace("<ul", '<ul style="..."'): a string pattern, so the first
\* start tag of that name alone gets the style.
styleFirst(h, tag) ==
    LET at == {j \in 1..Len(h) : h[j].k = "open" /\ h[j].tag = tag}
    IN [j \in 1..Len(h) |->
           IF j \in at /\ \A m \in at : j <= m THEN [h[j] EXCEPT !.style = ListStyle] ELSE h[j]]

\* str.replace(/<li>/g, '<li style="...">'): every start tag of an item that
\* has no attribute.
styleItems(h) ==
    [j \in 1..Len(h) |->
        IF h[j].k = "open" /\ h[j].tag = "li" /\ h[j].target = "" /\ h[j].style = ""
        THEN [h[j] EXCEPT !.style = ItemStyle]
        ELSE h[j]]

\* The list branch: the node is cloned into a document of its own, its
\* anchors are rewritten, and the list style and the item style are put on
\* the tags of its outer HTML.  Nothing is removed from the items.
listHtml(tag, inner) ==
    LET chunk == load(<<Lex("open", tag, "", "")>> \o inner \o <<Lex("close", tag, "", "")>>)
        rewritten == rewriteAnchors(chunk, BrandStyle("sanitizeInlineHtml"))
    IN styleItems(styleFirst(styleFirst(serialize(rewritten), "ul"), "ol"))

\* parts.join("\n")
RECURSIVE join(_)
join(ps) ==
    IF ps = <<>> THEN <<>>
    ELSE IF Len(ps) = 1 THEN ps[1].html
    ELSE ps[1].html \o <<Lex("text", "\n", "", "")>> \o join(Tail(ps))

InitBody ==
    /\ bodyNodes \in SeqsUpTo(BodyNodes, MaxBody)
    /\ wrapP \in BOOLEAN
    /\ bodyIdx = 1
    /\ parts = <<>>
    /\ bodyHtml = <<>>
    /\ bodyDone = FALSE
    /\ IdleTokens
    /\ IdleExtract
    /\ IdleSanitize
    /\ IdleEdition
    /\ IdleRun
    /\ IdleConcurrent
    /\ IdleSpotlight
    /\ IdleLss
    /\ IdleParse
    /\ IdleCareer
    /\ IdleWhatsOn

AtNode(tags) ==
    /\ ~bodyDone
    /\ bodyIdx \in 1..Len(bodyNodes)
    /\ bodyNodes[bodyIdx].tag \in tags

\* if (tag === "p") { ...; if (isEmptyRichText(inner)) continue; parts.push(...) }
RenderParagraph ==
    /\ AtNode({"p"})
    /\ LET inner == sanitizeInlineHtml("sanitizeInlineHtml", bodyNodes[bodyIdx].inner)
       IN /\ ~isEmptyRichText(inner)
          /\ parts' = Append(parts, [from |-> bodyIdx, html |-> paragraphHtml(wrapP, inner)])
    /\ bodyIdx' = bodyIdx + 1
    /\ UNCHANGED <<bodyNodes, wrapP, bodyHtml, bodyDone>>
    /\ UNCHANGED restBody

SkipEmptyParagraph ==
    /\ AtNode({"p"})
    /\ isEmptyRichText(sanitizeInlineHtml("sanitizeInlineHtml", bodyNodes[bodyIdx].inner))
    /\ bodyIdx' = bodyIdx + 1
    /\ UNCHANGED <<bodyNodes, wrapP, parts, bodyHtml, bodyDone>>
    /\ UNCHANGED restBody

\* else if (tag === "ul" || tag === "ol") { ...; parts.push(listHtml) }
RenderList ==
    /\ AtNode({"ul", "ol"})
    /\ parts' = Append(parts, [from |-> bodyIdx, html |-> listHtml(bodyNodes[bodyIdx].tag, bodyNodes[bodyIdx].inner)])
    /\ bodyIdx' = bodyIdx + 1
    /\ UNCHANGED <<bodyNodes, wrapP, bodyHtml, bodyDone>>
    /\ UNCHANGED restBody

\* Any other element: neither branch is taken.
SkipOtherNode ==
    /\ AtNode({"img"})
    /\ bodyIdx' = bodyIdx + 1
    /\ UNCHANGED <<bodyNodes, wrapP, parts, bodyHtml, bodyDone>>
    /\ UNCHANGED restBody

\* return parts.join("\n")
JoinParts ==
    /\ ~bodyDone
    /\ bodyIdx = Len(bodyNodes) + 1
    /\ bodyHtml' = join(parts)
    /\ bodyDone' = TRUE
    /\ UNCHANGED <<bodyNodes, wrapP, bodyIdx, parts>>
    /\ UNCHANGED restBody

(***************************************************************************)
(* Properties of renderBodyHtml                                             *)
(***************************************************************************)
\* The sanitized content of a paragraph has no plain text but spaces and
\* non-breaking spaces.
Blank(h) == \A j \in 1..Len(h) : h[j].k = "text" => h[j].tag \in {" ", "nbsp"}

Sanitized(i) == sanitizeInlineHtml("sanitizeInlineHtml", bodyNodes[i].inner)

\* The nodes renderBodyHtml is to emit something for, in document order.
Emitted ==
    SelectSeq([i \in 1..Len(bodyNodes) |-> i],
              LAMBDA i : \/ bodyNodes[i].tag \in {"ul", "ol"}
                         \/ bodyNodes[i].tag = "p" /\ ~Blank(Sanitized(i)))

\* C12: a paragraph whose sanitized content has no plain text left once
\* non-breaking spaces are spaces and the ends are trimmed gets no part of the
\* rendered body at all (no <p> wrapper, no text), and the parts of the
\* other nodes stand in document order.
C12_EmptyParagraphsAreExcluded ==
    bodyDone =>
        /\ [k \in 1..Len(parts) |-> parts[k].from] = Emitted
        /\ \A k \in 1..Len(parts) :
              bodyNodes[parts[k].from].tag = "p" =>
                  parts[k].html = paragraphHtml(wrapP, Sanitized(parts[k].from))
        /\ bodyHtml = join(parts)
        /\ Cardinality({j \in 1..Len(bodyHtml) :
                            bodyHtml[j].k = "open" /\ bodyHtml[j].tag = "p"})
             = IF wrapP
               THEN Cardinality({k \in 1..Len(parts) : bodyNodes[parts[k].from].tag = "p"})
               ELSE 0

\* Start tags of items open and not yet closed before position j.
InsideItem(h, j) ==
    Cardinality({m \in 1..(j - 1) : h[m].k = "open" /\ h[m].tag = "li"})
        > Cardinality({m \in 1..(j - 1) : h[m].k = "close" /\ h[m].tag = "li"})

\* C23: in the rendered body, no element inside a list item is outside the
\* allow-list {strong, b, em, i, a, br}, and every list item carries the
\* item style.
C23_ListItemsAreSanitizedAndStyled ==
    bodyDone =>
        \A j \in 1..Len(bodyHtml) :
            bodyHtml[j].k = "open" =>
                /\ InsideItem(bodyHtml, j) => bodyHtml[j].tag \in allowed
                /\ bodyHtml[j].tag = "li" => bodyHtml[j].style = ItemStyle

\* A paragraph holding only a non-breaking space, or only an empty inline
\* element, stood between two paragraphs with text, and the body was rendered
\* with wrappers.
C12_Witness ==
    /\ bodyDone /\ wrapP /\ Len(bodyNodes) = 3
    /\ \A i \in {1, 3} : bodyNodes[i].tag = "p" /\ ~Blank(Sanitized(i))
    /\ bodyNodes[2].tag = "p" /\ bodyNodes[2].inner # <<>> /\ Blank(Sanitized(2))
    /\ Len(parts) = 2


(***************************************************************************)
(* The lookups of a single list or paragraph after a marker, and the        *)
(* in-this-edition table                                                    *)
(*                                                                          *)
(* An element after the marker is [tag, inner, items]: an h2 (with text), a *)
(* paragraph (items holds its text), a list (items holds the texts of its   *)
(* li), or a div holding one list or one paragraph (inner says which).      *)
(* Texts are sequences of characters.                                       *)
(***************************************************************************)
MaxAfter == 3      \* elements that follow the marker

\* extractInThisEditionLondon: .slice(0, 12)
LondonCap == 12

Lookups ==
    { "extractInThisEdition", "extractInThisEditionGS", "extractInThisEditionDubai",
      "extractInThisEditionLondon", "extractPreviewTextGS" }

EditionLookups == Lookups \ {"extractPreviewTextGS"}

\* sel: the element looked up with marker.nextAll(sel).first();
\* deep: marker.nextAll().find(sel).first() is tried next;
\* paragraphs: with no list, the paragraphs after the marker are the items;
\* divs: that walk also takes the paragraphs inside a div;
\* capped: Set and slice(0, 12).
LookupCfg(f) ==
    CASE f = "extractInThisEdition" ->
            [sel |-> "ul", deep |-> TRUE, paragraphs |-> FALSE, divs |-> FALSE, capped |-> FALSE]
      [] f \in {"extractInThisEditionGS", "extractInThisEditionDubai"} ->
            [sel |-> "ul", deep |-> TRUE, paragraphs |-> TRUE, divs |-> TRUE, capped |-> FALSE]
      [] f = "extractInThisEditionLondon" ->
            [sel |-> "ul", deep |-> FALSE, paragraphs |-> TRUE, divs |-> FALSE, capped |-> TRUE]
      [] f = "extractPreviewTextGS" ->
            [sel |-> "p", deep |-> TRUE, paragraphs |-> FALSE, divs |-> FALSE, capped |-> FALSE]

EdNode(tag, inner, items) == [tag |-> tag, inner |-> inner, items |-> items]

\* s.replace(/\s+/g, " "): a run of whitespace becomes one space.
RECURSIVE collapse(_)
collapse(t) ==
    IF t = <<>> THEN <<>>
    ELSE IF Head(t) = " " /\ Len(t) > 1 /\ t[2] = " " THEN collapse(Tail(t))
    ELSE <<Head(t)>> \o collapse(Tail(t))

\* cleanText: normalizeDashes(s.replace(/\s+/g, " ").trim())
cleanText(t) ==
    LET c == trim(collapse(t), {" "})
    IN [j \in 1..Len(c) |-> IF c[j] = "mdash" THEN "-" ELSE c[j]]

\* .filter(Boolean) on strings: the empty ones go.
filterBoolean(ts) == SelectSeq(ts, LAMBDA t : t # <<>>)

\* Array.from(new Set(items)): the first of equal items stays.
RECURSIVE dedup(_)
dedup(ts) ==
    IF ts = <<>> THEN <<>>
    ELSE LET front == dedup(SubSeq(ts, 1, Len(ts) - 1))
         IN IF \E j \in 1..Len(front) : front[j] = ts[Len(ts)]
            THEN front ELSE Append(front, ts[Len(ts)])

\* .slice(0, 12)
slice(ts) == IF Len(ts) > LondonCap THEN SubSeq(ts, 1, LondonCap) ELSE ts

\* marker.nextAll(sel).first(), then marker.nextAll().find(sel).first():
\* position of the element found, 0 when there is none.
lookupNode(f, doc) ==
    LET direct == {i \in 1..Len(doc) : doc[i].tag = LookupCfg(f).sel}
        inside == {i \in 1..Len(doc) : doc[i].tag = "div" /\ doc[i].inner = LookupCfg(f).sel}
    IN IF direct # {} THEN Least(direct, 0)
       ELSE IF LookupCfg(f).deep THEN Least(inside, 0)
       ELSE 0

\* let el = marker.next(); while (el && el.length) { if (tag === "h2" && txt)
\* break; ... el = el.next() }: the positions the walk reaches.
walked(doc) ==
    {i \in 1..Len(doc) : \A j \in 1..i : doc[j].tag # "h2"}

\* The positions the paragraph walk takes an item from.
walkFrom(f, doc) ==
    {i \in walked(doc) :
        \/ doc[i].tag = "p"
        \/ LookupCfg(f).divs /\ doc[i].tag = "div" /\ doc[i].inner = "p"}

\* What a lookup function returns, and where it came from.
lookup(f, doc) ==
    LET at == lookupNode(f, doc)
        cfg == LookupCfg(f)
        found == filterBoolean([j \in 1..Len(doc[at].items) |-> cleanText(doc[at].items[j])])
        idx == SelectSeq([i \in 1..Len(doc) |-> i], LAMBDA i : i \in walkFrom(f, doc))
        paras == filterBoolean([k \in 1..Len(idx) |-> cleanText(doc[idx[k]].items[1])])
    IN IF at # 0
       THEN [items |-> IF cfg.capped THEN slice(found) ELSE found, from |-> {at}]
       ELSE IF cfg.paragraphs
       THEN [items |-> IF cfg.capped THEN slice(filterBoolean(dedup(paras))) ELSE paras,
             from |-> walkFrom(f, doc)]
       ELSE [items |-> <<>>, from |-> {}]

\* makeEditionRow: the row markup around escapeHtml(cleanText(text)).
makeEditionRow(t) == <<"<tr><td>">> \o escapeHtml(cleanText(t)) \o <<"</td></tr>">>

\* .join("\n")
RECURSIVE joinLines(_)
joinLines(ss) ==
    IF ss = <<>> THEN <<>>
    ELSE IF Len(ss) = 1 THEN ss[1]
    ELSE ss[1] \o <<"\n">> \o joinLines(Tail(ss))

\* renderInThisEditionFromTemplate: "" without rows, else tpl.replace(TOKEN_ROWS, rows).
renderInThisEditionFromTemplate(tpl, items) ==
    LET kept == filterBoolean(items)
        rows == joinLines([i \in 1..Len(kept) |-> makeEditionRow(kept[i])])
    IN IF rows = <<>> THEN <<>> ELSE replace(tpl, "ROWS", rows)

(***************************************************************************)
(* Inputs: the elements after the marker, the table template                *)
(***************************************************************************)
\* The li texts of a list: plain items, one with a run of spaces, items with
\* characters escapeHtml rewrites, items with a dollar sign, an empty li.
Lists ==
    { << <<"w">> >>,
      << <<"w">>, <<"v", " ", " ", "v">> >>,
      << <<"w", "&", "w">>, <<"<">> >>,
      << <<"$", "$">> >>,
      << <<"$", "'">> >>,
      << <<>>, <<"w">> >> }

EdNodes ==
    {EdNode("h2", "", <<>>)}
        \cup {EdNode("p", "", <<t>>) : t \in { <<"w">>, <<"v", " ", " ", "v">> }}
        \cup {EdNode("ul", "", l) : l \in Lists}
        \cup {EdNode("div", "ul", << <<"w">> >>), EdNode("div", "p", << <<"w">> >>)}

\* in-this-edition-table.mjml holds the ROWS placeholder once.
EdTemplates ==
    { <<"x", OPEN, "ROWS", CLOSE, "x">>, <<OPEN, WS, "ROWS", WS, CLOSE>> }

InitEdition ==
    /\ edLookup \in Lookups
    /\ edDoc \in SeqsUpTo(EdNodes, MaxAfter)
    /\ edTpl \in EdTemplates
    /\ edItems = <<>>
    /\ edFrom = {}
    /\ edMjml = <<>>
    /\ edPhase = "start"
    /\ IdleTokens
    /\ IdleExtract
    /\ IdleSanitize
    /\ IdleBody
    /\ IdleRun
    /\ IdleConcurrent
    /\ IdleSpotlight
    /\ IdleLss
    /\ IdleParse
    /\ IdleCareer
    /\ IdleWhatsOn

\* const editionItems = extractInThisEdition(docHtml)
ExtractEdition ==
    /\ edPhase = "start"
    /\ edLookup \in EditionLookups
    /\ edItems' = lookup(edLookup, edDoc).items
    /\ edFrom' = lookup(edLookup, edDoc).from
    /\ edPhase' = "extracted"
    /\ UNCHANGED <<edLookup, edDoc, edTpl, edMjml>>
    /\ UNCHANGED restEdition

\* const previewTextHtml = extractPreviewTextGS(docHtml)
ExtractPreviewText ==
    /\ edPhase = "start"
    /\ edLookup = "extractPreviewTextGS"
    /\ edItems' = lookup(edLookup, edDoc).items
    /\ edFrom' = lookup(edLookup, edDoc).from
    /\ edPhase' = "extracted"
    /\ UNCHANGED <<edLookup, edDoc, edTpl, edMjml>>
    /\ UNCHANGED restEdition

\* const inThisEditionMjml = renderInThisEditionFromTemplate(editionItems)
RenderEdition ==
    /\ edPhase = "extracted"
    /\ edLookup \in EditionLookups
    /\ edMjml' = renderInThisEditionFromTemplate(edTpl, edItems)
    /\ edPhase' = "rendered"
    /\ UNCHANGED <<edLookup, edDoc, edTpl, edItems, edFrom>>
    /\ UNCHANGED restEdition

(***************************************************************************)
(* Properties of the lookups and of the table                               *)
(***************************************************************************)
\* s with every ROWS placeholder replaced by exactly the text x.
Verbatim(s, x) ==
    Splice(s, 1, Matches(s, "ROWS"), [i \in 1..Len(Matches(s, "ROWS")) |-> x], 1)

\* The marker is directly followed by a list whose items all have text.
ListOfItemsFollows ==
    /\ edDoc # <<>>
    /\ edDoc[1].tag = "ul"
    /\ \A j \in 1..Len(edDoc[1].items) : cleanText(edDoc[1].items[j]) # <<>>

\* C13: when the marker is followed by a list of n items with text, the
\* rendered table is the template with n rows at the placeholder, in list
\* order, each row carrying the whitespace-normalized, HTML-escaped text of
\* its item.
C13_OneEscapedRowPerItem ==
    (edPhase = "rendered" /\ ListOfItemsFollows) =>
        edMjml = Verbatim(edTpl,
                    joinLines([j \in 1..Len(edDoc[1].items) |->
                        <<"<tr><td>">> \o escapeHtml(cleanText(edDoc[1].items[j]))
                                       \o <<"</td></tr>">>]))

\* Position of the first h2 after the marker; past the end when there is none.
NextH2(doc) == Least({i \in 1..Len(doc) : doc[i].tag = "h2"}, Len(doc) + 1)

\* C14: a lookup takes its content only from elements before the next h2
\* after the marker.
C14_LookupStopsAtNextH2 ==
    edPhase \in {"extracted", "rendered"} =>
        \A i \in edFrom : i < NextH2(edDoc)

(***************************************************************************)
(* One run of a builder: main() and main().catch                            *)
(*                                                                          *)
(* A path is [given, dirs, base, ext]: the directories below the working    *)
(* directory, and the file name split at its extension.  An output location *)
(* is [ok, dir, base, kept]: the files are dir/base+kept+".mjml" and        *)
(* dir/base+kept+".html"; ok is FALSE when the derivation threw.            *)
(***************************************************************************)
Mains == {"build", "presidential", "geopolitical", "dubai", "london"}

\* NEWSLETTER / NEWSLETTER_SLUG of each builder; build.js has the template
\* directory of the presidential summary.
Newsletter(b) ==
    CASE b \in {"build", "presidential"} -> "presidential-summary"
      [] b = "geopolitical" -> "geopolitical-summary"
      [] b = "dubai" -> "dubai-summary"
      [] b = "london" -> "london-summary"

Path(dirs, base, ext) == [given |-> TRUE, dirs |-> dirs, base |-> base, ext |-> ext]

NoArg == [given |-> FALSE, dirs |-> <<>>, base |-> "", ext |-> ""]

Out(dir, base, kept) == [ok |-> TRUE, dir |-> dir, base |-> base, kept |-> kept]

Thrown == [ok |-> FALSE, dir |-> <<>>, base |-> "", kept |-> ""]

\* build.js: DIST_DIR, OUT_MJML, OUT_HTML do not depend on the input.
fixedOutPaths == Out(<<"dist">>, "email", "")

\* deriveOutputPaths (build-presidential-summary.js): parts of the path
\* relative to the root; fewer than 5 parts, parts[0] other than "docx" or
\* parts[1] other than the expected newsletter throw; the output is named
\* after parts[4] without its extension, below dist/parts[1]/parts[2]/parts[3].
deriveOutputPaths(p, expectedNewsletter) ==
    IF Len(p.dirs) + 1 < 5 \/ p.dirs[1] # "docx" THEN Thrown
    ELSE IF p.dirs[2] # expectedNewsletter THEN Thrown
    ELSE Out(<<"dist", p.dirs[2], p.dirs[3], p.dirs[4]>>,
             IF Len(p.dirs) = 4 THEN p.base ELSE p.dirs[5],
             "")

\* computeOutPaths (geopolitical, Dubai, London): a path outside docx/
\* throws; /\.docx$/i is cut off the end; the directories below docx/ are
\* mirrored below dist/.
computeOutPaths(p) ==
    IF p.dirs = <<>> \/ p.dirs[1] # "docx" THEN Thrown
    ELSE Out(<<"dist">> \o Tail(p.dirs),
             p.base,
             IF p.ext \in {".docx", ".DOCX"} THEN "" ELSE p.ext)

Derive(b, p) ==
    CASE b = "build" -> fixedOutPaths
      [] b = "presidential" -> deriveOutputPaths(p, Newsletter(b))
      [] OTHER -> computeOutPaths(p)

St(ph, what) == [phase |-> ph, what |-> what]

NoStep == St("", "")

\* extract, then render, of one section.
Sec(x) == <<St("extract", x), St("render", x)>>

\* One substitution per token, in the order main() replaces them.
Substitutions(b) ==
    [i \in 1..Len(ReplaceOrder(b)) |-> St("substitute", ReplaceOrder(b)[i].tok)]

Output == <<St("compile", "mjml2html"), St("persist", "mjml"), St("persist", "html")>>

\* main() of build.js, step by step.
ProgramBuild ==
    << St("validate", "argument"), St("validate", "docx"), St("validate", "layout.mjml"),
       St("validate", "in-this-edition-table.mjml"), St("validate", "spotlight.mjml"),
       St("prepare", "ensureDir"), St("convert", "mammoth") >>
    \o Sec("edition") \o Sec("spotlight") \o Sec("lss")
    \o << St("extract", "footer"), St("extract", "credits"), St("extract", "preview") >>
    \o Substitutions("presidential") \o Output

\* main() of build-presidential-summary.js: deriveOutputPaths comes after
\* the existence checks.
ProgramPresidential ==
    << St("validate", "argument"), St("validate", "docx"), St("validate", "layout.mjml"),
       St("validate", "in-this-edition-table.mjml"), St("validate", "spotlight.mjml"),
       St("validate", "path"),
       St("prepare", "ensureDir"), St("convert", "mammoth") >>
    \o Sec("edition") \o Sec("spotlight") \o Sec("lss")
    \o << St("extract", "footer"), St("extract", "credits"), St("extract", "preview") >>
    \o Substitutions("presidential") \o Output

Checks ==
    << St("validate", "argument"), St("validate", "docx"), St("validate", "layout.mjml"),
       St("validate", "in-this-edition-table.mjml"), St("validate", "path"),
       St("prepare", "ensureDir"), St("convert", "mammoth") >>

ProgramGeopolitical ==
    Checks
    \o Sec("edition") \o Sec("spotlight") \o Sec("analysis") \o Sec("worldwide")
    \o Sec("foundations") \o << St("extract", "preview") >>
    \o Substitutions("geopolitical") \o Output

ProgramDubai ==
    Checks
    \o Sec("edition") \o Sec("spotlight") \o Sec("whereToEat") \o Sec("career")
    \o Sec("meanwhile") \o Sec("didYouKnow")
    \o Substitutions("dubai") \o Output

\* London: preview text and image credits are extracted once the first five
\* tokens are replaced.
ProgramLondon ==
    Checks
    \o Sec("edition") \o Sec("spotlight") \o Sec("whatsOn") \o Sec("lss") \o Sec("didYouKnow")
    \o SubSeq(Substitutions("london"), 1, 5)
    \o << St("extract", "preview"), St("substitute", "PREVIEW_TEXT"),
          St("extract", "credits"), St("render", "credits"), St("substitute", "IMAGE_CREDITS") >>
    \o Output

\* A main() that writes the substituted markup before it compiles it.
ProgramWritingEarly(b) ==
    Checks \o Sec("edition") \o Substitutions("dubai")
    \o << St("persist", "mjml"), St("compile", "mjml2html"), St("persist", "html") >>

Program(b) ==
    CASE b = "build" -> ProgramBuild
      [] b = "presidential" -> ProgramPresidential
      [] b = "geopolitical" -> ProgramGeopolitical
      [] b = "dubai" -> ProgramDubai
      [] b = "london" -> ProgramLondon

\* main().catch((e) => { console.error("Build failed:", e); process.exit(1) })
unhandled == [printed |-> FALSE, exit |-> 0]

catch == [printed |-> TRUE, exit |-> 1]

(***************************************************************************)
(* Inputs of a run                                                          *)
(***************************************************************************)
OtherNewsletter(b) ==
    IF Newsletter(b) = "london-summary" THEN "dubai-summary" ELSE "london-summary"

\* The path of this builder's newsletter, one of another newsletter, one
\* with too few directories, one outside docx/, and no argument.
RunPaths(b) ==
    { NoArg,
      Path(<<"docx", Newsletter(b), "2026", "feb">>, "a", ".docx"),
      Path(<<"docx", OtherNewsletter(b), "2026", "feb">>, "a", ".docx"),
      Path(<<"docx", Newsletter(b)>>, "a", ".docx"),
      Path(<<"inbox">>, "a", ".docx") }

Files == {"docx", "layout.mjml", "in-this-edition-table.mjml", "spotlight.mjml"}

\* A compiler whose validation errors make the call throw.
strictValidation(errors) == [warned |-> FALSE, throws |-> errors]

\* validationLevel "soft": the errors are returned, main() logs them and
\* goes on.
softValidation(errors) == [warned |-> errors, throws |-> FALSE]

InitRun ==
    /\ main \in Mains
    /\ argv \in RunPaths(main)
    /\ present \in SUBSET Files
    /\ (~argv.given => "docx" \notin present)
    /\ rpc = 1
    /\ trace = <<>>
    /\ failed = NoStep
    /\ pending = FALSE
    /\ printed = FALSE
    /\ exitCode = -1
    /\ outPaths = IF main = "build" THEN fixedOutPaths ELSE Thrown
    /\ madeDirs = {}
    /\ written = {}
    /\ mjmlErrors \in BOOLEAN
    /\ mjmlWarned = FALSE
    /\ IdleTokens
    /\ IdleExtract
    /\ IdleSanitize
    /\ IdleBody
    /\ IdleEdition
    /\ IdleConcurrent
    /\ IdleSpotlight
    /\ IdleLss
    /\ IdleParse
    /\ IdleCareer
    /\ IdleWhatsOn

Running == exitCode = -1 /\ ~pending /\ rpc \in 1..Len(Program(main))

Current == Program(main)[rpc]

\* The check of a validation step.
Passes(st) ==
    CASE st.what = "argument" -> argv.given
      [] st.what = "path" -> Derive(main, argv).ok
      [] OTHER -> st.what \in present

\* if (!...) throw new Error(...): the check passes.
Validate ==
    /\ Running /\ Current.phase = "validate" /\ Passes(Current)
    /\ trace' = Append(trace, Current)
    /\ outPaths' = IF Current.what = "path" THEN Derive(main, argv) ELSE outPaths
    /\ rpc' = rpc + 1
    /\ UNCHANGED <<main, argv, present, failed, pending, printed, exitCode, madeDirs, written>>
    /\ UNCHANGED <<mjmlErrors, mjmlWarned>>
    /\ UNCHANGED restRun

\* The check fails: main() throws.
Reject ==
    /\ Running /\ Current.phase = "validate" /\ ~Passes(Current)
    /\ trace' = Append(trace, Current)
    /\ failed' = Current
    /\ pending' = TRUE
    /\ UNCHANGED <<main, argv, present, rpc, printed, exitCode, outPaths, madeDirs, written>>
    /\ UNCHANGED <<mjmlErrors, mjmlWarned>>
    /\ UNCHANGED restRun

\* ensureDir(outDir)
EnsureDir ==
    /\ Running /\ Current.phase = "prepare"
    /\ trace' = Append(trace, Current)
    /\ madeDirs' = madeDirs \cup {outPaths.dir}
    /\ rpc' = rpc + 1
    /\ UNCHANGED <<main, argv, present, failed, pending, printed, exitCode, outPaths, written>>
    /\ UNCHANGED <<mjmlErrors, mjmlWarned>>
    /\ UNCHANGED restRun

\* Conversion, an extraction, a rendering, a substitution.
Work ==
    /\ Running /\ Current.phase \in {"convert", "extract", "render", "substitute"}
    /\ trace' = Append(trace, Current)
    /\ rpc' = rpc + 1
    /\ UNCHANGED <<main, argv, present, failed, pending, printed, exitCode, outPaths,
                   madeDirs, written>>
    /\ UNCHANGED <<mjmlErrors, mjmlWarned>>
    /\ UNCHANGED restRun

\* const { html, errors } = mjml2html(finalMjml, { validationLevel: "soft", ... });
\* if (errors?.length) { console.warn(...) }
Compile ==
    /\ Running /\ Current.phase = "compile"
    /\ trace' = Append(trace, Current)
    /\ mjmlWarned' = softValidation(mjmlErrors).warned
    /\ IF softValidation(mjmlErrors).throws
       THEN failed' = St("compile", "validation") /\ pending' = TRUE /\ rpc' = rpc
       ELSE failed' = failed /\ pending' = pending /\ rpc' = rpc + 1
    /\ UNCHANGED <<main, argv, present, printed, exitCode, outPaths, madeDirs, written,
                   mjmlErrors>>
    /\ UNCHANGED restRun

\* fs.writeFileSync(outMjmlPath, finalMjml, "utf8")
WriteMjml ==
    /\ Running /\ Current = St("persist", "mjml")
    /\ trace' = Append(trace, Current)
    /\ written' = written \cup {"mjml"}
    /\ rpc' = rpc + 1
    /\ UNCHANGED <<main, argv, present, failed, pending, printed, exitCode, outPaths, madeDirs>>
    /\ UNCHANGED <<mjmlErrors, mjmlWarned>>
    /\ UNCHANGED restRun

\* fs.writeFileSync(outHtmlPath, html, "utf8")
WriteHtml ==
    /\ Running /\ Current = St("persist", "html")
    /\ trace' = Append(trace, Current)
    /\ written' = written \cup {"html"}
    /\ rpc' = rpc + 1
    /\ UNCHANGED <<main, argv, present, failed, pending, printed, exitCode, outPaths, madeDirs>>
    /\ UNCHANGED <<mjmlErrors, mjmlWarned>>
    /\ UNCHANGED restRun

\* A step after the checks throws (mkdir, reading a file, mammoth, cheerio,
\* mjml2html, writing a file): the step has no effect.
Throw ==
    /\ Running /\ Current.phase # "validate"
    /\ trace' = Append(trace, Current)
    /\ failed' = Current
    /\ pending' = TRUE
    /\ UNCHANGED <<main, argv, present, rpc, printed, exitCode, outPaths, madeDirs, written>>
    /\ UNCHANGED <<mjmlErrors, mjmlWarned>>
    /\ UNCHANGED restRun

\* main().catch(...)
Catch ==
    /\ pending /\ exitCode = -1
    /\ printed' = catch.printed
    /\ exitCode' = catch.exit
    /\ pending' = FALSE
    /\ UNCHANGED <<main, argv, present, rpc, trace, failed, outPaths, madeDirs, written>>
    /\ UNCHANGED <<mjmlErrors, mjmlWarned>>
    /\ UNCHANGED restRun

\* main() returned: the process ends with code 0.
Finish ==
    /\ exitCode = -1 /\ ~pending /\ rpc = Len(Program(main)) + 1
    /\ exitCode' = 0
    /\ UNCHANGED <<main, argv, present, rpc, trace, failed, pending, printed, outPaths,
                   madeDirs, written>>
    /\ UNCHANGED <<mjmlErrors, mjmlWarned>>
    /\ UNCHANGED restRun

(***************************************************************************)
(* Properties of a run                                                      *)
(***************************************************************************)
Ended == exitCode # -1

\* C15: a run that has ended wrote both output files or neither.
C15_BothFilesOrNeither ==
    Ended => (("mjml" \in written) <=> ("html" \in written))

NoRepeat(t) == \A i, j \in 1..Len(t) : t[i] = t[j] => i = j

Failed == failed # NoStep

\* C16: a step that fails is the last step of the run, the error is printed
\* and the process exits with a code other than zero; no step runs twice; a
\* run in which no step fails ends with code zero.
C16_FailureAbortsTheRun ==
    /\ NoRepeat(trace)
    /\ trace = SubSeq(Program(main), 1, Len(trace))
    /\ Failed => trace[Len(trace)] = failed
    /\ (Failed /\ ~Ended) => pending
    /\ Ended => IF Failed THEN exitCode # 0 /\ printed ELSE exitCode = 0

\* The compilation threw after every earlier step had run, and the process
\* has ended.
C16_Witness ==
    /\ Ended /\ failed = St("compile", "mjml2html")
    /\ Len(trace) > 10 /\ written = {}

\* The seven phases of the run, in the order the specification gives them;
\* ensureDir belongs to none.
PhaseRank(ph) ==
    CASE ph = "validate" -> 1
      [] ph = "convert" -> 2
      [] ph = "extract" -> 3
      [] ph = "render" -> 4
      [] ph = "substitute" -> 5
      [] ph = "compile" -> 6
      [] ph = "persist" -> 7
      [] OTHER -> 0

Stage(ph) ==
    CASE ph = "validate" -> 1
      [] ph = "prepare" -> 2
      [] ph = "convert" -> 3
      [] ph \in {"extract", "render", "substitute"} -> 4
      [] ph = "compile" -> 5
      [] ph = "persist" -> 6

ValidationSteps(b) ==
    {Program(b)[i] : i \in {k \in 1..Len(Program(b)) : Program(b)[k].phase = "validate"}}

Mismatch ==
    /\ argv.given /\ Len(argv.dirs) >= 2 /\ argv.dirs[1] = "docx"
    /\ argv.dirs[2] # Newsletter(main)

\* C19: with a path of another newsletter the run makes no output directory,
\* writes no file, does not start the conversion and does not end with code
\* zero.
C19_MismatchIsFatal ==
    Mismatch =>
        /\ madeDirs = {} /\ written = {}
        /\ \A i \in 1..Len(trace) : trace[i].phase # "convert"
        /\ exitCode # 0

(***************************************************************************)
(* Two builds of one builder run at the same time on different inputs       *)
(***************************************************************************)
Builds == {1, 2}

\* Paths of the builder's newsletter: two file names, written with three
\* extensions, in the month's directory or one directory below it.
ConcurrentPaths(b) ==
    { Path(d, f, e) :
        d \in { <<"docx", Newsletter(b), "2026", "feb">>,
                <<"docx", Newsletter(b), "2026", "feb", "a">> },
        f \in {"a", "b"},
        e \in {".docx", ".DOCX", ".doc"} }

\* The paths main() accepts.
ValidPaths(b) == {p \in ConcurrentPaths(b) : Derive(b, p).ok}

File(o, suffix) == [dir |-> o.dir, base |-> o.base, kept |-> o.kept, suffix |-> suffix]

\* fs.writeFileSync(file, ...) by build r: the file holds what r wrote.
writeFileSync(fs, file, r) ==
    {e \in fs : e.file # file} \cup {[file |-> file, by |-> r]}

\* The builds whose content of `file` a write by r destroys.
Overwritten(fs, file, r) == {e.by : e \in {x \in fs : x.file = file /\ x.by # r}}

InitConcurrent ==
    /\ cMain \in Mains
    /\ cIn \in {pq \in ValidPaths(cMain) \X ValidPaths(cMain) : pq[1] # pq[2]}
    /\ cPc = [r \in Builds |-> "start"]
    /\ cOut = [r \in Builds |-> Thrown]
    /\ cFs = {}
    /\ cLost = {}
    /\ IdleTokens
    /\ IdleExtract
    /\ IdleSanitize
    /\ IdleBody
    /\ IdleEdition
    /\ IdleRun
    /\ IdleSpotlight
    /\ IdleLss
    /\ IdleParse
    /\ IdleCareer
    /\ IdleWhatsOn

\* const { outMjmlPath, outHtmlPath, outDir } = computeOutPaths(DOCX_PATH)
DerivePaths(r) ==
    /\ cPc[r] = "start"
    /\ cOut' = [cOut EXCEPT ![r] = Derive(cMain, cIn[r])]
    /\ cPc' = [cPc EXCEPT ![r] = "derived"]
    /\ UNCHANGED <<cMain, cIn, cFs, cLost>>
    /\ UNCHANGED restConcurrent

\* fs.writeFileSync(outMjmlPath, finalMjml, "utf8")
PersistMjml(r) ==
    /\ cPc[r] = "derived"
    /\ cFs' = writeFileSync(cFs, File(cOut[r], ".mjml"), r)
    /\ cLost' = cLost \cup Overwritten(cFs, File(cOut[r], ".mjml"), r)
    /\ cPc' = [cPc EXCEPT ![r] = "mjml"]
    /\ UNCHANGED <<cMain, cIn, cOut>>
    /\ UNCHANGED restConcurrent

\* fs.writeFileSync(outHtmlPath, html, "utf8")
PersistHtml(r) ==
    /\ cPc[r] = "mjml"
    /\ cFs' = writeFileSync(cFs, File(cOut[r], ".html"), r)
    /\ cLost' = cLost \cup Overwritten(cFs, File(cOut[r], ".html"), r)
    /\ cPc' = [cPc EXCEPT ![r] = "done"]
    /\ UNCHANGED <<cMain, cIn, cOut>>
    /\ UNCHANGED restConcurrent

\* C18: two builds on different input paths derive different output
\* locations, neither overwrites a file of the other, and no .mjml of one
\* stands next to the .html of the other.
C18_DistinctInputsDistinctOutputs ==
    /\ (\A r \in Builds : cPc[r] # "start") => cOut[1] # cOut[2]
    /\ cLost = {}
    /\ \A e1, e2 \in cFs :
          (e1.file.dir = e2.file.dir /\ e1.file.base = e2.file.base
              /\ e1.file.kept = e2.file.kept) => e1.by = e2.by

\* C21: when the compiler returned a non-empty list of errors, they are
\* logged and the run goes on to the writes; such a run that ends without a
\* failing step has written both output files and exits with code zero.
C21_CompilerWarningsDoNotBlock ==
    /\ failed # St("compile", "validation")
    /\ (mjmlErrors /\ \E i \in 1..Len(trace) : trace[i].phase = "compile" /\ trace[i] # failed) =>
        /\ mjmlWarned
        /\ (Ended /\ ~Failed) => written = {"mjml", "html"} /\ exitCode = 0

\* The compiler returned errors and the run ended with both files written.
C21_Witness ==
    /\ mjmlErrors /\ mjmlWarned /\ Ended /\ exitCode = 0
    /\ written = {"mjml", "html"}

\* C25: every check of a token with one of the shared global regexes starts
\* from lastIndex 0, and a check logs its warning only when the string it
\* is made on holds no occurrence of the token.
C25_ChecksStartFromZero ==
    [][(ip' = ip + 1 /\ (AtOp("test") \/ AtOp("hasToken"))) =>
          LET tok == Chain(builder)[ip].tok IN
          /\ AtOp("test") => lastIndex[tok] = 0
          /\ tok \in warned' \ warned => Occurrences(out, tok) = {}]_vars

\* The second topic of renderSpotlightSections has had both its checks on a
\* template that holds both tokens, and no warning was logged.
C25_Witness ==
    /\ builder = "spotlight" /\ ip = 8 /\ warned = {}
    /\ Occurrences(layout, "SPOTLIGHT_HEADER") # {}
    /\ Occurrences(layout, "SPOTLIGHT_TOPIC") # {}

NextTokens == TestToken \/ HasToken \/ ReplaceToken \/ NextTopic

(***************************************************************************)
(* parseSpotlightNodesGS / parseFoundationNodesGS: image, caption, body     *)
(***************************************************************************)
GsParsers == {"parseSpotlightNodesGS", "parseFoundationNodesGS"}

\* $(selector).length > 0 on a parsed fragment: an element with one of the
\* tags stands somewhere in it.
RECURSIVE find(_, _)
find(ns, tags) ==
    \E j \in 1..Len(ns) : ns[j].tag \in tags \/ find(ns[j].kids, tags)

\* The node is an img, or a paragraph that holds one.
holdsImage(node) ==
    \/ node.tag = "img"
    \/ node.tag = "p" /\ find(load(node.inner), {"img"})

\* The first loop: the index of the first such node, 0 when there is none.
findImage(seq) == Least({i \in 1..Len(seq) : holdsImage(seq[i])}, 0)

\* Mutation of isCaption: any paragraph with italic text is a caption.
isItalic(node) ==
    /\ node.tag = "p"
    /\ find(load(node.inner), {"em", "i"})
    /\ cleanText(plainText(node.inner)) # <<>>

\* hasItalic && plain && !hasOtherBlocks, on a paragraph.
isCaption(node) ==
    /\ node.tag = "p"
    /\ find(load(node.inner), {"em", "i"})
    /\ cleanText(plainText(node.inner)) # <<>>
    /\ ~find(load(node.inner), {"strong", "b", "ul", "ol", "h1", "h2", "h3", "img"})

\* rewriteAnchorsGS($); sanitizeInlineHtmlGS($("root").html() || "")
captionHtml(node) ==
    sanitizeInlineHtml("sanitizeInlineHtml",
        serialize(rewriteAnchors(load(node.inner), BrandStyle("sanitizeInlineHtml"))))

\* The third loop: the parts of the body, each with the index of its node.
RECURSIVE bodyParts(_, _, _, _)
bodyParts(seq, i, img, cap) ==
    IF i > Len(seq) THEN <<>>
    ELSE (IF i = img \/ i = cap THEN <<>>
          ELSE IF seq[i].tag = "p"
          THEN (IF isEmptyRichText(sanitizeInlineHtml("sanitizeInlineHtml", seq[i].inner))
                THEN <<>>
                ELSE <<[from |-> i,
                        html |-> paragraphHtml(TRUE,
                                   sanitizeInlineHtml("sanitizeInlineHtml", seq[i].inner))]>>)
          ELSE IF seq[i].tag \in {"ul", "ol"}
          THEN <<[from |-> i, html |-> listHtml(seq[i].tag, seq[i].inner)]>>
          ELSE <<>>)
         \o bodyParts(seq, i + 1, img, cap)

\* The nodes of a story are paragraphs, images and lists; a list item may
\* hold an image.
\* Inner HTML of the paragraphs of a story: text, an image, text and an
\* image, italic text, italic and bold text, an italic element holding a
\* space, nothing.
GsInners ==
    { serialize(ns) : ns \in
        { <<TextNode(<<"w">>)>>,
          <<Elem("img", "", "", <<>>)>>,
          <<TextNode(<<"w">>), Elem("img", "", "", <<>>)>>,
          <<Elem("i", "", "", <<TextNode(<<"w">>)>>)>>,
          <<Elem("em", "", "", <<TextNode(<<"w">>)>>),
            Elem("strong", "", "", <<TextNode(<<"w">>)>>)>>,
          <<Elem("i", "", "", <<TextNode(<<" ">>)>>)>>,
          <<>> } }

GsNodes ==
    {BodyNode("p", h) : h \in GsInners}
        \cup {BodyNode("img", <<>>),
              BodyNode("ul", serialize(<<Elem("li", "", "", <<TextNode(<<"w">>)>>)>>)),
              BodyNode("ol", serialize(<<Elem("li", "", "", <<Elem("img", "", "", <<>>)>>)>>))}

InitParse ==
    /\ gsParser \in GsParsers
    /\ gsSeq \in SeqsUpTo(GsNodes, MaxNodes)
    /\ gsImgIndex = 0
    /\ gsCaptionIndex = 0
    /\ gsParts = [image |-> FALSE, captionHtml |-> <<>>, body |-> <<>>]
    /\ gsPhase = "start"
    /\ IdleTokens
    /\ IdleExtract
    /\ IdleSanitize
    /\ IdleBody
    /\ IdleEdition
    /\ IdleRun
    /\ IdleConcurrent
    /\ IdleSpotlight
    /\ IdleLss
    /\ IdleCareer
    /\ IdleWhatsOn

\* 1) Find first image occurrence
FindImage ==
    /\ gsPhase = "start"
    /\ gsImgIndex' = findImage(gsSeq)
    /\ gsParts' = [gsParts EXCEPT !.image = findImage(gsSeq) # 0]
    /\ gsPhase' = "image"
    /\ UNCHANGED <<gsParser, gsSeq, gsCaptionIndex>>
    /\ UNCHANGED restParse

\* 2) Detect caption paragraph: immediately after image
DetectCaption ==
    /\ gsPhase = "image"
    /\ IF gsImgIndex >= 1 /\ gsImgIndex + 1 <= Len(gsSeq) /\ isCaption(gsSeq[gsImgIndex + 1])
       THEN /\ gsCaptionIndex' = gsImgIndex + 1
            /\ gsParts' = [gsParts EXCEPT !.captionHtml = captionHtml(gsSeq[gsImgIndex + 1])]
       ELSE UNCHANGED <<gsCaptionIndex, gsParts>>
    /\ gsPhase' = "caption"
    /\ UNCHANGED <<gsParser, gsSeq, gsImgIndex>>
    /\ UNCHANGED restParse

\* 3) Build body HTML from remaining nodes
BuildBody ==
    /\ gsPhase = "caption"
    /\ gsParts' = [gsParts EXCEPT !.body = bodyParts(gsSeq, 1, gsImgIndex, gsCaptionIndex)]
    /\ gsPhase' = "body"
    /\ UNCHANGED <<gsParser, gsSeq, gsImgIndex, gsCaptionIndex>>
    /\ UNCHANGED restParse

(***************************************************************************)
(* Properties of the geopolitical story parsers                             *)
(***************************************************************************)
\* Elements of the tags stand in the inner HTML h.
Holds(h, tags) == \E j \in 1..Len(h) : h[j].k = "open" /\ h[j].tag \in tags

\* The inner HTML h has text other than whitespace.
HasPlainText(h) == \E j \in 1..Len(h) : h[j].k = "text" /\ h[j].tag \notin {" ", "nbsp"}

\* Index of the first node that is an image or a paragraph holding one (the
\* image of a story; an img inside a list item is part of the list).
FirstImage ==
    Least({i \in 1..Len(gsSeq) :
              gsSeq[i].tag = "img" \/ (gsSeq[i].tag = "p" /\ Holds(gsSeq[i].inner, {"img"}))}, 0)

\* The node right after the first image is a paragraph with text, with an
\* em or i element and none of strong, b, ul, ol, h1-h3, img.
CaptionFollows ==
    /\ FirstImage >= 1 /\ FirstImage + 1 <= Len(gsSeq)
    /\ gsSeq[FirstImage + 1].tag = "p"
    /\ HasPlainText(gsSeq[FirstImage + 1].inner)
    /\ Holds(gsSeq[FirstImage + 1].inner, {"em", "i"})
    /\ ~Holds(gsSeq[FirstImage + 1].inner, {"strong", "b", "ul", "ol", "h1", "h2", "h3", "img"})

\* C28: the node holding the first image and the caption paragraph are not
\* part of the body; a caption is produced only when an image was found and
\* the node right after it is a paragraph with text that holds an em or i
\* element and no strong, b, ul, ol, h1-h3 or img element; every other
\* list and every other paragraph with text is in the body once, in order.
C28_ImageAndCaptionAreNotBody ==
    gsPhase = "body" =>
        /\ gsParts.image <=> FirstImage # 0
        /\ gsParts.captionHtml # <<>> => CaptionFollows
        /\ [k \in 1..Len(gsParts.body) |-> gsParts.body[k].from] =
             SelectSeq([i \in 1..Len(gsSeq) |-> i],
                LAMBDA i : /\ i # FirstImage
                           /\ ~(CaptionFollows /\ i = FirstImage + 1)
                           /\ \/ gsSeq[i].tag \in {"ul", "ol"}
                              \/ gsSeq[i].tag = "p" /\ HasPlainText(gsSeq[i].inner))

\* A paragraph holding an image, an italic paragraph, a paragraph of text:
\* the caption was produced and the body holds the third node alone.
C28_Witness ==
    /\ gsPhase = "body" /\ Len(gsSeq) = 3
    /\ gsImgIndex = 1 /\ gsSeq[1].tag = "p"
    /\ gsParts.captionHtml # <<>>
    /\ Len(gsParts.body) = 1 /\ gsParts.body[1].from = 3

(***************************************************************************)
(* extractCareerDubai / renderCareerDubai                                   *)
(*                                                                          *)
(* The elements after the "Career" h2 are h2 and h3 headings (with text),   *)
(* paragraphs with text ("p"), paragraphs that hold a non-breaking space    *)
(* ("pe") and lists.                                                        *)
(***************************************************************************)
CareerKinds == {"h2", "h3", "p", "pe", "ul"}

\* el.html() of a paragraph of each kind.
CareerInner(k) ==
    IF k = "p" THEN serialize(<<Elem("b", "", "", <<TextNode(<<"w">>)>>)>>)
    ELSE serialize(<<TextNode(<<"nbsp">>)>>)

NoCareer == [title |-> <<>>, at |-> 0, tags |-> <<>>, body |-> <<>>]

\* The first loop: the position of the first h3 before an h2; 0 when the
\* walk meets an h2 or the end first.
RECURSIVE findTitle(_, _)
findTitle(s, i) ==
    IF i > Len(s) \/ s[i] = "h2" THEN 0
    ELSE IF s[i] = "h3" THEN i
    ELSE findTitle(s, i + 1)

\* The second loop: the sanitized paragraphs that are not empty, up to the
\* next h2, each with the position of its element.
RECURSIVE collectParas(_, _)
collectParas(s, i) ==
    IF i > Len(s) \/ s[i] = "h2" THEN <<>>
    ELSE (IF s[i] \in {"p", "pe"}
             /\ ~isEmptyRichText(sanitizeInlineHtml("sanitizeInlineHtml", CareerInner(s[i])))
          THEN <<[from |-> i,
                  html |-> sanitizeInlineHtml("sanitizeInlineHtml", CareerInner(s[i]))]>>
          ELSE <<>>)
         \o collectParas(s, i + 1)

\* paras.slice(0, 3).map((x) => cleanText(stripHtml(x))).filter(Boolean)
tagsOf(paras) ==
    SelectSeq([k \in 1..(IF Len(paras) < 3 THEN Len(paras) ELSE 3) |->
                  [from |-> paras[k].from, text |-> cleanText(plainText(paras[k].html))]],
              LAMBDA t : t.text # <<>>)

\* Mutation of bodyOf: the body starts at the third paragraph.
bodyFromThird(paras) == SubSeq(paras, 3, Len(paras))

\* paras.slice(3)
bodyOf(paras) == SubSeq(paras, 4, Len(paras))

extractCareer(has, s) ==
    IF ~has \/ findTitle(s, 1) = 0 THEN NoCareer
    ELSE [title |-> <<"t">>, at |-> findTitle(s, 1),
          tags |-> tagsOf(collectParas(s, findTitle(s, 1) + 1)),
          body |-> bodyOf(collectParas(s, findTitle(s, 1) + 1))]

\* if (!title) return ""; else the title block, the tags block when there
\* are tags, the body block when there is a body.
renderCareerDubai(data) ==
    IF data.title = <<>> THEN <<>>
    ELSE <<[block |-> "title"]>>
         \o (IF data.tags # <<>> THEN <<[block |-> "tags"]>> ELSE <<>>)
         \o (IF data.body # <<>> THEN <<[block |-> "body"]>> ELSE <<>>)

InitCareer ==
    /\ crHasH2 \in BOOLEAN
    /\ crSiblings \in SeqsUpTo(CareerKinds, MaxCareer)
    /\ crData = NoCareer
    /\ crMjml = <<>>
    /\ crPhase = "start"
    /\ IdleTokens
    /\ IdleExtract
    /\ IdleSanitize
    /\ IdleBody
    /\ IdleEdition
    /\ IdleRun
    /\ IdleConcurrent
    /\ IdleSpotlight
    /\ IdleLss
    /\ IdleParse
    /\ IdleWhatsOn

\* const career = extractCareerDubai(html)
ExtractCareer ==
    /\ crPhase = "start"
    /\ crData' = extractCareer(crHasH2, crSiblings)
    /\ crPhase' = "extracted"
    /\ UNCHANGED <<crHasH2, crSiblings, crMjml>>
    /\ UNCHANGED restCareer

\* renderCareerDubai(career)
RenderCareer ==
    /\ crPhase = "extracted"
    /\ crMjml' = renderCareerDubai(crData)
    /\ crPhase' = "rendered"
    /\ UNCHANGED <<crHasH2, crSiblings, crData>>
    /\ UNCHANGED restCareer

(***************************************************************************)
(* Properties of the Dubai career section                                   *)
(***************************************************************************)
\* Position of the next h2 after the Career h2; Len + 1 when none.
CareerEnd == Least({i \in 1..Len(crSiblings) : crSiblings[i] = "h2"}, Len(crSiblings) + 1)

\* Position of the first h3 before it; 0 when none.
CareerTitleAt == Least({i \in 1..(CareerEnd - 1) : crSiblings[i] = "h3"}, 0)

\* Positions of the paragraphs with text between the title and the next h2.
CareerParagraphs ==
    SelectSeq([i \in 1..Len(crSiblings) |-> i],
              LAMBDA i : i > CareerTitleAt /\ i < CareerEnd /\ crSiblings[i] = "p")

Froms(xs) == [k \in 1..Len(xs) |-> xs[k].from]

WhatsOnKinds == {"p", "pe", "ul", "h2"}

WhatsOnCap == 3

Line(k, i) == [text |-> IF k = "p" THEN <<"w", i>> ELSE <<>>, from |-> i]

\* The while loop: one line for each paragraph up to the next h2.
RECURSIVE collectLines(_, _)
collectLines(s, i) ==
    IF i > Len(s) \/ s[i] = "h2" THEN <<>>
    ELSE (IF s[i] \in {"p", "pe"} THEN <<Line(s[i], i)>> ELSE <<>>) \o collectLines(s, i + 1)

\* Split by empty lines: `cur` is the block being filled.
RECURSIVE splitBlocks(_, _)
splitBlocks(lines, cur) ==
    IF lines = <<>> THEN (IF cur # <<>> THEN <<cur>> ELSE <<>>)
    ELSE IF Head(lines).text = <<>>
    THEN (IF cur # <<>> THEN <<cur>> ELSE <<>>) \o splitBlocks(Tail(lines), <<>>)
    ELSE splitBlocks(Tail(lines), Append(cur, Head(lines)))

\* descLines.join(" ")
RECURSIVE joinSpace(_)
joinSpace(ts) ==
    IF ts = <<>> THEN <<>>
    ELSE IF Len(ts) = 1 THEN <<ts[1]>>
    ELSE <<ts[1], " ">> \o joinSpace(Tail(ts))

\* Mutation of ctaTextOf: the last line of the block is always the CTA.
ctaTextLastLine(b) == b[Len(b)].text

\* ctaLine = b.length >= 2 ? b[b.length - 1].text : "";  ctaLine || "Learn more"
ctaTextOf(b) == IF Len(b) >= 2 THEN b[Len(b)].text ELSE "Learn more"

\* b.slice(1, Math.max(1, b.length - 1)).map((x) => x.text).join(" ")
descOf(b) == joinSpace([k \in 1..(IF Len(b) >= 2 THEN Len(b) - 2 ELSE 0) |-> b[k + 1].text])

whatsOnItem(b) ==
    [title |-> b[1].text, desc |-> descOf(b), ctaText |-> ctaTextOf(b), from |-> b[1].from]

\* for (const b of blocks.slice(0, 3)) items.push({...})
extractWhatsOn(has, s) ==
    IF ~has THEN <<>>
    ELSE LET blocks == splitBlocks(collectLines(s, 1), <<>>)
         IN [k \in 1..(IF Len(blocks) < WhatsOnCap THEN Len(blocks) ELSE WhatsOnCap) |->
                whatsOnItem(blocks[k])]

\* The blocks of the renderer: the story of each item and, for every item
\* but the last, the dashed divider.
RECURSIVE whatsOnBlocks(_, _)
whatsOnBlocks(items, idx) ==
    IF idx > Len(items) THEN <<>>
    ELSE <<[kind |-> "story", item |-> idx]>>
         \o (IF idx # Len(items) THEN <<[kind |-> "divider", item |-> idx]>> ELSE <<>>)
         \o whatsOnBlocks(items, idx + 1)

\* if (!list.length) return ""; ... [header, blocks, footer].join("\n")
renderWhatsOnLondon(items) ==
    IF items = <<>> THEN <<>>
    ELSE <<[kind |-> "header", item |-> 0]>>
         \o whatsOnBlocks(SubSeq(items, 1, IF Len(items) < WhatsOnCap THEN Len(items)
                                           ELSE WhatsOnCap), 1)
         \o <<[kind |-> "footer", item |-> 0]>>

InitWhatsOn ==
    /\ woHasMarker \in BOOLEAN
    /\ woSiblings \in SeqsUpTo(WhatsOnKinds, MaxLines)
    /\ woItems = <<>>
    /\ woMjml = <<>>
    /\ woPhase = "start"
    /\ IdleTokens
    /\ IdleExtract
    /\ IdleSanitize
    /\ IdleBody
    /\ IdleEdition
    /\ IdleRun
    /\ IdleConcurrent
    /\ IdleSpotlight
    /\ IdleLss
    /\ IdleParse
    /\ IdleCareer

\* const whatsOn = extractWhatsOnLondon(html)
ExtractWhatsOn ==
    /\ woPhase = "start"
    /\ woItems' = extractWhatsOn(woHasMarker, woSiblings)
    /\ woPhase' = "extracted"
    /\ UNCHANGED <<woHasMarker, woSiblings, woMjml>>
    /\ UNCHANGED restWhatsOn

\* renderWhatsOnLondon(whatsOn)
RenderWhatsOn ==
    /\ woPhase = "extracted"
    /\ woMjml' = renderWhatsOnLondon(woItems)
    /\ woPhase' = "rendered"
    /\ UNCHANGED <<woHasMarker, woSiblings, woItems>>
    /\ UNCHANGED restWhatsOn

(***************************************************************************)
(* Properties of the London "What's on" section                             *)
(***************************************************************************)
\* Positions of the paragraphs before the next h2, in document order.
WoLines ==
    SelectSeq([i \in 1..Len(woSiblings) |-> i],
              LAMBDA i : /\ woSiblings[i] \in {"p", "pe"}
                         /\ \A j \in 1..i : woSiblings[j] # "h2")

\* Indices in WoLines at which a block of paragraphs with text starts.
WoStarts ==
    SelectSeq([k \in 1..Len(WoLines) |-> k],
              LAMBDA k : /\ woSiblings[WoLines[k]] = "p"
                         /\ (k = 1 \/ woSiblings[WoLines[k - 1]] = "pe"))

\* Index in WoLines of the last line of the block that starts at index k.
WoLast(k) ==
    Least({j \in k..Len(WoLines) : j = Len(WoLines) \/ woSiblings[WoLines[j + 1]] = "pe"}, k)

WoText(k) == <<"w", WoLines[k]>>

\* C30: the extractor returns at most three items, one for each of the first
\* blocks of paragraphs with text that empty paragraphs separate, in
\* document order; the title of an item is the first line of its block, its
\* CTA text the last line when the block has two lines or more and "Learn
\* more" otherwise, its description the lines strictly between; the
\* renderer puts a dashed divider after every item but the last.
C30_WhatsOnItemsAndDividers ==
    /\ (woPhase \in {"extracted", "rendered"} /\ woHasMarker) =>
         /\ Len(woItems) = IF Len(WoStarts) < 3 THEN Len(WoStarts) ELSE 3
         /\ \A n \in 1..Len(woItems) :
              LET k == WoStarts[n] IN
              /\ woItems[n].title = WoText(k)
              /\ woItems[n].ctaText = IF WoLast(k) > k THEN WoText(WoLast(k)) ELSE "Learn more"
              /\ woItems[n].desc = joinSpace([d \in 1..(WoLast(k) - k - 1) |-> WoText(k + d)])
    /\ woPhase = "rendered" =>
         /\ [k \in 1..Len(SelectSeq(woMjml, LAMBDA b : b.kind = "story")) |->
                SelectSeq(woMjml, LAMBDA b : b.kind = "story")[k].item]
              = [n \in 1..Len(woItems) |-> n]
         /\ \A j \in 1..Len(woMjml) :
              /\ woMjml[j].kind = "story" =>
                   (woMjml[j + 1].kind = "divider" <=> woMjml[j].item # Len(woItems))
              /\ woMjml[j].kind = "divider" => woMjml[j - 1].kind = "story"

\* A block of three lines, a block of one line and another of one line,
\* empty paragraphs between them: three items, two dividers.
C30_Witness ==
    /\ woPhase = "rendered" /\ woHasMarker
    /\ woSiblings = <<"p", "p", "p", "pe", "p", "pe", "p">>
    /\ Len(woItems) = 3 /\ woItems[1].desc # <<>> /\ woItems[2].ctaText = "Learn more"
    /\ Cardinality({j \in 1..Len(woMjml) : woMjml[j].kind = "divider"}) = 2

NextWhatsOn == ExtractWhatsOn \/ RenderWhatsOn

SpecWhatsOn == InitWhatsOn /\ [][NextWhatsOn]_vars

NextCareer == ExtractCareer \/ RenderCareer

SpecCareer == InitCareer /\ [][NextCareer]_vars

NextParse == FindImage \/ DetectCaption \/ BuildBody

SpecParse == InitParse /\ [][NextParse]_vars

NextSpotlight == ReturnNoSpotlight \/ RenderStory \/ JoinBlocks

SpecSpotlight == InitSpotlight /\ [][NextSpotlight]_vars

NextLss == ExtractLss \/ RenderLss

SpecLss == InitLss /\ [][NextLss]_vars

SpecTokens == InitTokens /\ [][NextTokens]_vars

NextExtract == Extract \/ Render \/ Inject

SpecExtract == InitExtract /\ [][NextExtract]_vars

NextSanitize == Load \/ RewriteAnchors \/ Unwrap \/ Serialize

SpecSanitize == InitSanitize /\ [][NextSanitize]_vars

NextBody == RenderParagraph \/ SkipEmptyParagraph \/ RenderList \/ SkipOtherNode \/ JoinParts

SpecBody == InitBody /\ [][NextBody]_vars

NextEdition == ExtractEdition \/ ExtractPreviewText \/ RenderEdition

SpecEdition == InitEdition /\ [][NextEdition]_vars

NextRun ==
    \/ Validate \/ Reject \/ EnsureDir \/ Work \/ Compile \/ WriteMjml \/ WriteHtml
    \/ Throw \/ Catch \/ Finish

SpecRun == InitRun /\ [][NextRun]_vars

NextConcurrent == \E r \in Builds : DerivePaths(r) \/ PersistMjml(r) \/ PersistHtml(r)

SpecConcurrent == InitConcurrent /\ [][NextConcurrent]_vars

====
